---- MODULE Spec2Model ----
(***************************************************************************)
(* A model of the evolution simulator: Gene (gene.py), Genome (genome.py), *)
(* Brain (brain.py), Grid (grid.py), Individual (individual.py) and the    *)
(* Simulation engine (simulation.py).                                      *)
(*                                                                         *)
(* Numbers.  A gene weight is a Python float.  The model keeps a weight as *)
(* an integer count of sub-steps of the 16-bit weight code: the weight w   *)
(* stands for the real number  w * 4.0 / (32767 * WRes),  so that          *)
(* weight / 4.0 * 32767 is exactly w / WRes.  A 32-bit packed word is kept *)
(* as its two 16-bit halves [hi, lo] (the word is hi * 65536 + lo).        *)
(*                                                                         *)
(* Every other float (a sensor reading, an accumulator, a neuron or action *)
(* output, responsiveness) is kept as an enclosure [lo, hi]: two integer   *)
(* counts of a fixed unit between which the real number the code computes  *)
(* lies, lo = hi when the count is exact.  Sums, products and quotients    *)
(* are exact or rounded outwards, tanh and sin are bracketed from tables,  *)
(* and a comparison the enclosure does not settle is left open both ways:  *)
(* every outcome of the code is an outcome of the model.  A float holds    *)
(* the count exactly only where the code computes it without rounding (0,  *)
(* 1/2, 1, a quotient that is a multiple of 1/1024); a sum of two rounded  *)
(* terms is widened by one unit either way, which is far more than the     *)
(* rounding of a float (one part in 2^53).                                 *)
(***************************************************************************)
EXTENDS Integers, Sequences, FiniteSets, TLC

VARIABLES
    \* ---- Gene harness (specification SpecGene) ----
    gene,       \* the Gene object under test (its five fields)
    gprev,      \* the fields of that object before the last operation
    gword,      \* the packed word last produced or decoded
    gop,        \* the last operation applied: "init", "to_int", "from_int", "roundtrip", "mutate"
    gbit,       \* the bit position drawn by the last Gene.mutate (-1 before any)
    gflips,     \* how many Gene.mutate calls the object has seen
    \* ---- Genome.crossover harness (specification SpecCross) ----
    xa,         \* parent_a.genes
    xb,         \* parent_b.genes
    xcut,       \* the two cut points drawn, <<parent_a_genes, parent_b_genes>>
    xrnd,       \* the gene Gene.random() returns if crossover asks for one
    xchild,     \* the genes of the child returned
    xop,        \* "init" before the call, "crossover" after it
    \* ---- Brain construction harness (specification SpecBrain) ----
    bgenome,    \* the genes of the genome given to Brain(...)
    bbrain,     \* the Brain object built from it
    bop,        \* "init" before the call, "built" after it
    \* ---- the Simulation engine (specification Spec) ----
    cfg,            \* the constructor arguments, as stored by Simulation.__init__
    grid,           \* Simulation.grid: width, height, data, barriers
    individuals,    \* Simulation.individuals, a list (position k holds index k - 1)
    generation,     \* Simulation.generation
    current_step,   \* Simulation.current_step
    kill_count,     \* Simulation.kill_count
    history,        \* Simulation.history, a list of stats records
    pc,             \* where the driver is: "new" (constructed, not spawned), "idle"
                    \* (between calls), "run_step" / "run_all_steps" (inside the loop
                    \* over the individuals), "selection" (run_one_generation after
                    \* its last tick), "error" (a call ended in an exception)
    cursor,         \* the position in individuals the loop of run_step is at
    ticks_left,     \* the iterations run_all_steps has still to make
    tick_log,       \* what each individual already processed in this tick did:
                    \* where it stood, the clamped move it drew, whether it moved,
                    \* the deltas of its move actions as summed before the clamp
    \* ---- Brain.feed_forward harness (specification SpecFeed) ----
    fbrain,     \* the Brain object feed_forward is called on
    fsens,      \* the sensor_values of the last call
    fprev,      \* brain.neuron_outputs as they were before the last call
    fout,       \* the action outputs the last call returned
    fcalls,     \* how many feed_forward calls the brain has seen
    \* ---- selection harness (specification SpecSelect) ----
    sel_cfg,        \* the engine's constructor arguments
    sel_pop,        \* Simulation.individuals
    sel_survivors,  \* the list the last apply_selection call returned
    sel_calls,      \* how many apply_selection calls have been made
    \* ---- reproduce with object identity (specification SpecRepro) ----
    rcfg,       \* the engine's constructor arguments
    rheap,      \* every Gene object alive: position i holds the fields of object i
    rsurv,      \* the survivors' genomes, each a list of Gene object ids
    rsnap,      \* the survivors' genomes as fields, taken before reproduce began
    rchildren,  \* the child genomes built so far, each a list of Gene object ids
    rop,        \* "init", "reproduce" (inside the loop), "returned", "mutated"
    \* ---- the placement loop of spawn_generation (specification SpecLive) ----
    sp_genomes, \* the genomes spawn_generation has still to place
    sp_draw,    \* the cell _random_empty_location drew last (NoCell outside the loop)
    \* ---- Genome.mutate harness (specification SpecMutate) ----
    mu_genes,   \* genome.genes before the call
    mu_rate,    \* the mutation_rate given to the call
    mu_pointed, \* the genes after the loop of point mutations
    mu_deleted, \* the genes after the deletion
    mu_after,   \* genome.genes when the call returns
    mu_op,      \* "init" before the call, "mutated" after it
    \* ---- the interactive driver of main.py (specification SpecGui) ----
    gui_running,    \* running: Start has been clicked and Reset has not
    gui_paused,     \* paused
    gui_phase,      \* gen_phase: "idle" or "stepping"
    gui_avg_genes,  \* avg_genes, the average shown on the stats panel
    gui_iter,       \* the passes the stepping loop of the current frame has
                    \* still to make (0 between frames)
    gui_settings,   \* what the sliders and the dropdown show: the engine
                    \* create_sim would build from them
    gui_moves       \* how many times a slider or the dropdown has been set

geneVars == <<gene, gprev, gword, gop, gbit, gflips>>
crossVars == <<xa, xb, xcut, xrnd, xchild, xop>>
brainVars == <<bgenome, bbrain, bop>>
simVars == <<cfg, grid, individuals, generation, current_step, kill_count,
             history, pc, cursor, ticks_left, tick_log>>

feedVars == <<fbrain, fsens, fprev, fout, fcalls>>
selVars == <<sel_cfg, sel_pop, sel_survivors, sel_calls>>
reproVars == <<rcfg, rheap, rsurv, rsnap, rchildren, rop>>
spawnVars == <<sp_genomes, sp_draw>>
mutVars == <<mu_genes, mu_rate, mu_pointed, mu_deleted, mu_after, mu_op>>
guiVars == <<gui_running, gui_paused, gui_phase, gui_avg_genes, gui_iter, gui_settings, gui_moves>>

vars == <<gene, gprev, gword, gop, gbit, gflips,
          xa, xb, xcut, xrnd, xchild, xop,
          bgenome, bbrain, bop,
          cfg, grid, individuals, generation, current_step, kill_count,
          history, pc, cursor, ticks_left, tick_log,
          fbrain, fsens, fprev, fout, fcalls,
          sel_cfg, sel_pop, sel_survivors, sel_calls,
          rcfg, rheap, rsurv, rsnap, rchildren, rop,
          sp_genomes, sp_draw,
          mu_genes, mu_rate, mu_pointed, mu_deleted, mu_after, mu_op,
          gui_running, gui_paused, gui_phase, gui_avg_genes, gui_iter,
          gui_settings, gui_moves>>

-----------------------------------------------------------------------------
(* Bounds of the model *)

\* sub-steps per weight code unit (the resolution of modelled weights)
WRes == 2
\* how many Gene.mutate calls one gene object sees in SpecGene
MaxFlips == 1
\* SpecCross: parents of every length 0..MaxShortLen (and of the lengths
\* around the 50-gene cap, see ParentLens)
MaxShortLen == 3
\* SpecBrain: genomes of every length 0..MaxBrainLen
MaxBrainLen == 3
\* SpecFeed: brains wired from 0..MaxFeedLen genes
MaxFeedLen == 3
\* SpecFeed: feed_forward is called MaxFeedCalls times on a brain
MaxFeedCalls == 3
\* SpecSelect: apply_selection is called MaxSelCalls times in a row
MaxSelCalls == 2
\* SpecRepro: up to MaxSurvivors survivors
MaxSurvivors == 2
\* Spec: run_one_generation is called while generation < MaxGen
MaxGen == 1
\* Spec: a tick is started while current_step < MaxStep
MaxStep == 2
\* Spec: how many genes one Genome.mutate call point-mutates at most
MaxPointFlips == 1
\* SpecGui: the Sim Speed slider is followed from 1 to MaxFrameSteps
MaxFrameSteps == 2
\* SpecGui: the sliders and the dropdown are set MaxSliderMoves times at most
MaxSliderMoves == 2
\* SpecGui: the frames of an engine are followed if it has at most
\* MaxFramePopulation individuals and MaxFrameTicks steps to the generation
MaxFramePopulation == 50
MaxFrameTicks == 50

-----------------------------------------------------------------------------
(* Arithmetic helpers *)

Min(a, b) == IF a <= b THEN a ELSE b
Max(a, b) == IF a >= b THEN a ELSE b
Abs(a) == IF a >= 0 THEN a ELSE -a

RECURSIVE Pow2(_)
Pow2(n) == IF n = 0 THEN 1 ELSE 2 * Pow2(n - 1)

\* Python's int(n / d) for d > 0: truncation toward zero
TruncDiv(n, d) == IF n >= 0 THEN n \div d ELSE -((-n) \div d)

\* bit i (0 = least significant) of a non-negative integer
BitOf(n, i) == (n \div Pow2(i)) % 2

\* n with bit i flipped  (n ^ (1 << i))
FlipBit(n, i) == IF BitOf(n, i) = 1 THEN n - Pow2(i) ELSE n + Pow2(i)

-----------------------------------------------------------------------------
(* gene.py *)

\* Gene.__init__: the five fields
Gene(source_type, source_id, sink_type, sink_id, weight) ==
    [source_type |-> source_type, source_id |-> source_id,
     sink_type |-> sink_type, sink_id |-> sink_id, weight |-> weight]

\* the largest and smallest 16-bit weight codes
CodeMax == 32767
CodeMin == -32768

\* w_int = max(-32768, min(32767, int(self.weight / 4.0 * 32767)))
WeightCode(weight) == Max(CodeMin, Min(CodeMax, TruncDiv(weight, WRes)))

\* w_uint = w_int & 0xFFFF
ToUint16(w_int) == IF w_int >= 0 THEN w_int ELSE w_int + 65536

\* a variant of to_int that rounds the scaled weight to the nearest code
\* instead of truncating it
to_int_rounding(g) ==
    LET s2 == 2 * g.weight
        r == IF s2 >= 0 THEN (s2 + WRes) \div (2 * WRes)
                        ELSE -((-s2 + WRes) \div (2 * WRes))
    IN  [hi |-> g.source_type * 32768 + (g.source_id % 128) * 256
                + g.sink_type * 128 + (g.sink_id % 128),
         lo |-> ToUint16(Max(CodeMin, Min(CodeMax, r)))]

\* a variant of to_int that packs the sink id without masking the sink kind
\* bit position (shift 15 instead of 16: the sink id lands one bit low)
to_int_misplaced(g) ==
    [hi |-> g.source_type * 32768 + (g.source_id % 128) * 256
            + g.sink_type * 128 + ((g.sink_id % 128) \div 2),
     lo |-> ToUint16(WeightCode(g.weight))]

\* Gene.to_int: (source_type << 31) | ((source_id & 0x7F) << 24)
\*              | (sink_type << 23) | ((sink_id & 0x7F) << 16) | w_uint
to_int(g) ==
    [hi |-> g.source_type * 32768 + (g.source_id % 128) * 256
            + g.sink_type * 128 + (g.sink_id % 128),
     lo |-> ToUint16(WeightCode(g.weight))]

\* a variant of from_int that forgets the sign extension of the weight code
from_int_unsigned(p) ==
    Gene((p.hi \div 32768) % 2, (p.hi \div 256) % 128,
         (p.hi \div 128) % 2, p.hi % 128, p.lo * WRes)

\* a variant of from_int that reads the sink id with a 6-bit mask
from_int_narrow(p) ==
    LET w_int == IF p.lo < 32768 THEN p.lo ELSE p.lo - 65536
    IN  Gene((p.hi \div 32768) % 2, (p.hi \div 256) % 128,
             (p.hi \div 128) % 2, p.hi % 64, w_int * WRes)

\* Gene.from_int: the fields are cut out of the word; the weight is
\* (w_int / 32767.0) * 4.0, which is w_int * WRes sub-steps
from_int(p) ==
    LET w_uint == p.lo
        w_int == IF w_uint < 32768 THEN w_uint ELSE w_uint - 65536
    IN  Gene((p.hi \div 32768) % 2, (p.hi \div 256) % 128,
             (p.hi \div 128) % 2, p.hi % 128, w_int * WRes)

\* packed ^= (1 << bit)
FlipWordBit(p, bit) ==
    IF bit < 16 THEN [hi |-> p.hi, lo |-> FlipBit(p.lo, bit)]
                ELSE [hi |-> FlipBit(p.hi, bit - 16), lo |-> p.lo]

\* a variant of mutate that flips the bit in the weight field only
mutate_low(g, bit) == from_int(FlipWordBit(to_int(g), bit % 16))

\* Gene.mutate with the drawn bit: pack, flip, decode, replace every field
mutate(g, bit) == from_int(FlipWordBit(to_int(g), bit))

\* bit i (0..31) of a packed word
WordBit(p, i) == IF i < 16 THEN BitOf(p.lo, i) ELSE BitOf(p.hi, i - 16)

\* the bit positions where two packed words differ  (p XOR q)
XorBits(p, q) == {i \in 0..31 : WordBit(p, i) # WordBit(q, i)}

-----------------------------------------------------------------------------
(* genome.py *)

\* the cap on the number of genes of a genome
MaxGenes == 50

\* the genes Gene.random() is taken to return: BLOCKED_FORWARD -> MOVE_X with
\* the largest weight (both ids beyond their counts, to be folded), and
\* BLOCKED_FORWARD -> MOVE_Y with a negative weight off the code grid
GenePool ==
    { Gene(1, 22, 1, 5, CodeMax * WRes),
      Gene(1, 10, 1, 1, 1 - 8192 * WRes) }

\* Genome.random(num_genes): every list of num_genes random genes
GenomeRandom(num_genes) ==
    IF num_genes <= 0 THEN {<<>>} ELSE [1..num_genes -> GenePool]

\* genes[:n]
Prefix(genes, n) == SubSeq(genes, 1, n)
\* genes[n:]
Suffix(genes, n) == SubSeq(genes, n + 1, Len(genes))

\* a variant of crossover that takes parent_b's prefix instead of its suffix
crossover_prefix_b(parent_a, parent_b, parent_a_genes, parent_b_genes, rnd) ==
    LET child_genes == Prefix(parent_a, parent_a_genes) \o Prefix(parent_b, parent_b_genes)
        capped == IF Len(child_genes) > MaxGenes THEN Prefix(child_genes, MaxGenes)
                  ELSE child_genes
    IN  IF Len(capped) = 0 THEN <<rnd>> ELSE capped

\* a variant of crossover that forgets the cap
crossover_uncapped(parent_a, parent_b, parent_a_genes, parent_b_genes, rnd) ==
    LET child_genes == Prefix(parent_a, parent_a_genes) \o Suffix(parent_b, parent_b_genes)
    IN  IF Len(child_genes) = 0 THEN <<rnd>> ELSE child_genes

\* a variant of crossover that returns the empty recombination as it is
crossover_no_fallback(parent_a, parent_b, parent_a_genes, parent_b_genes, rnd) ==
    LET child_genes == Prefix(parent_a, parent_a_genes) \o Suffix(parent_b, parent_b_genes)
    IN  IF Len(child_genes) > MaxGenes THEN Prefix(child_genes, MaxGenes)
        ELSE child_genes

\* Genome.crossover with its draws: the two cut points and the gene
\* Gene.random() returns (read only if the recombination is empty)
crossover(parent_a, parent_b, parent_a_genes, parent_b_genes, rnd) ==
    LET child_genes == Prefix(parent_a, parent_a_genes) \o Suffix(parent_b, parent_b_genes)
        capped == IF Len(child_genes) > MaxGenes THEN Prefix(child_genes, MaxGenes)
                  ELSE child_genes
    IN  IF Len(capped) = 0 THEN <<rnd>> ELSE capped

-----------------------------------------------------------------------------
(* Real-valued quantities other than weights.  A sensor reading, a neuron   *)
(* or action output and responsiveness are counted in 1 / One; a signal and *)
(* an accumulator of feed_forward in 1 / (One * SignalScale).               *)

One == Pow2(10)

\* the least integer not below n / d, for d > 0
CeilDiv(n, d) == -((-n) \div d)

\* the enclosure of a real known exactly
Exact(v) == [lo |-> v, hi |-> v]

\* n / d for n >= 0 and d > 0, in 1 / One
Quotient(n, d) == [lo |-> (n * One) \div d, hi |-> CeilDiv(n * One, d)]

\* accumulator += signal: adding 0.0 changes nothing, and the float sum of
\* two other terms is within one unit of the sum of their counts (two
\* products that cancel in the counts need not cancel in floats)
Summed(a, b) ==
    IF a = Exact(0) THEN b
    ELSE IF b = Exact(0) THEN a
    ELSE [lo |-> a.lo + b.lo - 1, hi |-> a.hi + b.hi + 1]

\* a weight sub-step is 4 / SignalScale: a source value (in 1 / One) times a
\* weight sub-step is 4 parts of 1 / (One * SignalScale)
SignalScale == CodeMax * WRes

\* source_value * weight, the weight being a count of weight sub-steps: the
\* exact products of the two ends of the source value
Signal(source_value, weight) ==
    LET p == source_value.lo * weight * 4
        q == source_value.hi * weight * 4
    IN  [lo |-> Min(p, q), hi |-> Max(p, q)]

\* 1024 * tanh(k / 16) rounded down, for k = 0..64 (0.0 to 4.0)
TanhTable ==
    <<0, 63, 127, 189, 250, 309, 366, 421, 473, 522, 567, 610, 650, 687, 720,
      751, 779, 805, 828, 849, 868, 885, 900, 914, 926, 937, 947, 956, 963,
      970, 976, 982, 987, 991, 995, 998, 1001, 1004, 1006, 1008, 1010, 1011,
      1013, 1014, 1015, 1016, 1017, 1018, 1018, 1019, 1020, 1020, 1020, 1021,
      1021, 1021, 1022, 1022, 1022, 1022, 1022, 1023, 1023, 1023, 1023>>

\* math.tanh(a) for an accumulator count a >= 0, read between two points of
\* TanhTable.  tanh is concave there, so it lies on or above the chord
\* between the two points (and is at least tanh(4.0) beyond the table), and
\* less than 1 / One above a chord over 1 / 16; the table is less than
\* 1 / One below tanh; and tanh(a) <= a and tanh(a) <= 1
TanhOf(a) ==
    LET step == (One * SignalScale) \div 16
        k == a \div step
        rest == a % step
        rise == IF k >= 64 THEN 0 ELSE (TanhTable[k + 2] - TanhTable[k + 1]) * rest
    IN  IF a = 0 THEN Exact(0)
        ELSE IF k >= 64 THEN [lo |-> TanhTable[65], hi |-> One]
        ELSE [lo |-> TanhTable[k + 1] + rise \div step,
              hi |-> Min(Min(One, CeilDiv(a, SignalScale)),
                         TanhTable[k + 1] + CeilDiv(rise, step) + 2)]

\* math.tanh of an accumulator: tanh is odd and increasing, and 0 exactly
\* at 0
Tanh(a) ==
    [lo |-> IF a.lo >= 0 THEN TanhOf(a.lo).lo ELSE -TanhOf(-a.lo).hi,
     hi |-> IF a.hi >= 0 THEN TanhOf(a.hi).hi ELSE -TanhOf(-a.hi).lo]

\* 1024 * sin(k * pi / 64) rounded down, for k = 0..32 (a quarter turn)
SinTable ==
    <<0, 50, 100, 150, 199, 248, 297, 344, 391, 437, 482, 526, 568, 609, 649,
      687, 724, 758, 791, 822, 851, 878, 903, 925, 946, 964, 979, 993, 1004,
      1012, 1019, 1022, 1024>>

\* the sine of n / den of a quarter turn, 0 <= n <= den: exact at both
\* ends; in between on or above the chord between two points of SinTable and
\* less than 1 / One above it, the table being less than 1 / One below
SinQuarter(n, den) ==
    LET k == (32 * n) \div den
        rest == (32 * n) % den
        rise == IF n = den THEN 0 ELSE (SinTable[k + 2] - SinTable[k + 1]) * rest
    IN  IF n = 0 THEN Exact(0)
        ELSE IF n = den THEN Exact(One)
        ELSE [lo |-> SinTable[k + 1] + rise \div den,
              hi |-> Min(One, SinTable[k + 1] + CeilDiv(rise, den) + 2)]

\* math.sin(2 * math.pi * num / den) for num >= 0 and den > 0, quarter turn
\* by quarter turn.  The float is 0.0 at num = 0, 1.0 and -1.0 at the odd
\* quarter turns, and a rounding error of either sign at the half and full
\* turns, where the float angle is not the multiple of pi
SinTurn(num, den) ==
    LET r == (4 * num) % (4 * den)
        quarter == r \div den
        n == r % den
        up == SinQuarter(n, den)
        down == SinQuarter(den - n, den)
    IN  IF num = 0 THEN Exact(0)
        ELSE IF n = 0 /\ quarter \in {0, 2} THEN [lo |-> -1, hi |-> 1]
        ELSE IF quarter = 0 THEN up
        ELSE IF quarter = 1 THEN down
        ELSE IF quarter = 2 THEN [lo |-> -up.hi, hi |-> -up.lo]
        ELSE [lo |-> -down.hi, hi |-> -down.lo]

\* (math.sin(2 * math.pi * step / steps_per_gen) + 1) / 2
Oscillator(step, steps_per_gen) ==
    LET wave == SinTurn(step, steps_per_gen)
    IN  [lo |-> (wave.lo + One) \div 2, hi |-> CeilDiv(wave.hi + One, 2)]

-----------------------------------------------------------------------------
(* brain.py and the counts of individual.py *)

NUM_SENSORS == 12
NUM_ACTIONS == 5
NUM_INTERNAL == 4

\* a variant of the resolution that folds a sensor source by the neuron count
\* and a neuron source by the sensor count
Connection_swapped(g, num_sensors, num_actions, num_internal) ==
    [source_type |-> g.source_type,
     source_id |-> IF g.source_type = 1 THEN g.source_id % num_internal
                   ELSE g.source_id % num_sensors,
     sink_type |-> g.sink_type,
     sink_id |-> IF g.sink_type = 1 THEN g.sink_id % num_actions
                 ELSE g.sink_id % num_internal,
     weight |-> g.weight]

\* one pass of the loop of Brain.__init__: the connection a gene resolves to
Connection(g, num_sensors, num_actions, num_internal) ==
    [source_type |-> g.source_type,
     source_id |-> IF g.source_type = 1 THEN g.source_id % num_sensors
                   ELSE g.source_id % num_internal,
     sink_type |-> g.sink_type,
     sink_id |-> IF g.sink_type = 1 THEN g.sink_id % num_actions
                 ELSE g.sink_id % num_internal,
     weight |-> g.weight]

\* Brain.__init__: the counts, one connection per gene in genome order, and
\* the neuron memory at 0.0
Brain(genes, num_sensors, num_actions, num_internal) ==
    [num_sensors |-> num_sensors,
     num_actions |-> num_actions,
     num_internal |-> num_internal,
     connections |-> [k \in 1..Len(genes) |->
                        Connection(genes[k], num_sensors, num_actions, num_internal)],
     neuron_outputs |-> [i \in 0..(num_internal - 1) |-> Exact(0)]]

-----------------------------------------------------------------------------
(* grid.py *)

Cells(width, height) == (0..(width - 1)) \X (0..(height - 1))

\* Grid.__init__: data is np.zeros((width, height)), read as data[x][y];
\* every cell empty (0), no barrier
Grid(width, height) ==
    [width |-> width, height |-> height,
     data |-> [x \in 0..(width - 1) |-> [y \in 0..(height - 1) |-> 0]],
     barriers |-> {}]

in_bounds(gr, x, y) == 0 <= x /\ x < gr.width /\ 0 <= y /\ y < gr.height

\* a variant of is_empty that looks at barriers only
is_empty_ignoring_occupants(gr, x, y) == <<x, y>> \notin gr.barriers

is_empty(gr, x, y) == gr.data[x][y] = 0 /\ <<x, y>> \notin gr.barriers

is_barrier(gr, x, y) == <<x, y>> \in gr.barriers

is_occupied(gr, x, y) == gr.data[x][y] # 0

\* Grid.set: the cell holds index + 1 (index counts from 0)
GridSet(gr, x, y, index) ==
    [gr EXCEPT !.data[x][y] = index + 1]

\* Grid.get: the index of the occupant, or "None"
GridGet(gr, x, y) ==
    LET val == gr.data[x][y] IN IF val > 0 THEN val - 1 ELSE "None"

\* a variant of Grid.move that forgets to clear the old cell
GridMove_no_clear(gr, old_x, old_y, new_x, new_y) ==
    [gr EXCEPT !.data[new_x][new_y] = gr.data[old_x][old_y]]

\* Grid.move: copy the old cell into the new one, then clear the old one
GridMove(gr, old_x, old_y, new_x, new_y) ==
    LET copied == [gr EXCEPT !.data[new_x][new_y] = gr.data[old_x][old_y]]
    IN  [copied EXCEPT !.data[old_x][old_y] = 0]

\* a variant of Grid.clear that leaves the occupants where they are
GridClear_keeps_occupants(gr) == gr

\* Grid.clear: every cell empty, barriers kept
GridClear(gr) ==
    [gr EXCEPT !.data = [x \in 0..(gr.width - 1) |-> [y \in 0..(gr.height - 1) |-> 0]]]

\* Grid.add_barrier
GridAddBarrier(gr, x, y) == [gr EXCEPT !.barriers = @ \cup {<<x, y>>}]

-----------------------------------------------------------------------------
(* brain.py: feed_forward *)

RECURSIVE Accumulate(_, _, _, _, _, _)
\* the accumulator of one sink after the connections k..end have been added:
\* the sum of source_value * weight over the connections that end in it,
\* neuron sources read from the stored neuron_outputs
Accumulate(connections, k, sink_type, sink_id, sensor_values, neuron_outputs) ==
    IF k > Len(connections) THEN Exact(0)
    ELSE LET c == connections[k]
             source_value ==
                 IF c.source_type = 1
                 THEN (IF c.source_id \in DOMAIN sensor_values
                       THEN sensor_values[c.source_id] ELSE Exact(0))
                 ELSE (IF c.source_id \in DOMAIN neuron_outputs
                       THEN neuron_outputs[c.source_id] ELSE Exact(0))
             here == IF c.sink_type = sink_type /\ c.sink_id = sink_id
                     THEN Signal(source_value, c.weight) ELSE Exact(0)
         IN  Summed(here, Accumulate(connections, k + 1, sink_type, sink_id,
                                     sensor_values, neuron_outputs))

\* a variant of feed_forward that stores the squashed neuron outputs before
\* the action accumulators are filled, so that neuron sources feed the
\* actions with the values of the call in progress
feed_forward_eager(brain, sensor_values) ==
    LET fresh == [i \in 0..(brain.num_internal - 1) |->
                    Tanh(Accumulate(brain.connections, 1, 0, i, sensor_values,
                                    brain.neuron_outputs))]
    IN  [action_outputs |->
            [i \in 0..(brain.num_actions - 1) |->
                Tanh(Accumulate(brain.connections, 1, 1, i, sensor_values, fresh))],
         neuron_outputs |-> fresh]

\* Brain.feed_forward: the action outputs and the neuron outputs stored for
\* the next call
feed_forward(brain, sensor_values) ==
    [action_outputs |->
        [i \in 0..(brain.num_actions - 1) |->
            Tanh(Accumulate(brain.connections, 1, 1, i, sensor_values,
                            brain.neuron_outputs))],
     neuron_outputs |->
        [i \in 0..(brain.num_internal - 1) |->
            Tanh(Accumulate(brain.connections, 1, 0, i, sensor_values,
                            brain.neuron_outputs))]]

-----------------------------------------------------------------------------
(* individual.py *)

\* Sensor
LOC_X == 0
LOC_Y == 1
BOUNDARY_DIST == 2
AGE == 3
LAST_MOVE_DIR_X == 4
LAST_MOVE_DIR_Y == 5
RANDOM == 6
NEAREST_EDGE_X == 7
NEAREST_EDGE_Y == 8
POPULATION_DENSITY == 9
BLOCKED_FORWARD == 10
OSCILLATOR == 11

\* Action
MOVE_X == 0
MOVE_Y == 1
MOVE_FORWARD == 2
MOVE_RANDOM == 3
SET_RESPONSIVENESS == 4

\* Individual.__init__
Individual(genome, x, y) ==
    [genome |-> genome, x |-> x, y |-> y,
     brain |-> Brain(genome, NUM_SENSORS, NUM_ACTIONS, NUM_INTERNAL),
     alive |-> TRUE, last_dx |-> 0, last_dy |-> 0,
     responsiveness |-> Exact(One \div 2)]

Min4(a, b, c, d) == Min(Min(a, b), Min(c, d))

\* a variant of compute_sensors whose LOC_X counts the columns from 1:
\* (x + 1) / width
compute_sensors_one_based(self, gr, step, steps_per_gen, rnd) ==
    LET dist_to_edge == Min4(self.x, self.y, gr.width - 1 - self.x,
                             gr.height - 1 - self.y)
        max_possible == Min(gr.width, gr.height) \div 2
        neighbors ==
            Cardinality({d \in {<<-1, 0>>, <<1, 0>>, <<0, -1>>, <<0, 1>>} :
                /\ in_bounds(gr, self.x + d[1], self.y + d[2])
                /\ is_occupied(gr, self.x + d[1], self.y + d[2])})
        fx == self.x + self.last_dx
        fy == self.y + self.last_dy
    IN  [s \in 0..(NUM_SENSORS - 1) |->
          CASE s = LOC_X -> Quotient(self.x + 1, gr.width)
            [] s = LOC_Y -> Quotient(self.y, gr.height - 1)
            [] s = BOUNDARY_DIST -> Quotient(dist_to_edge, max_possible)
            [] s = AGE -> Quotient(step, steps_per_gen)
            [] s = LAST_MOVE_DIR_X -> Quotient(self.last_dx + 1, 2)
            [] s = LAST_MOVE_DIR_Y -> Quotient(self.last_dy + 1, 2)
            [] s = RANDOM -> rnd
            [] s = NEAREST_EDGE_X ->
                 IF self.x <= gr.width - 1 - self.x THEN Exact(0) ELSE Exact(One)
            [] s = NEAREST_EDGE_Y ->
                 IF self.y <= gr.height - 1 - self.y THEN Exact(0) ELSE Exact(One)
            [] s = POPULATION_DENSITY -> Quotient(neighbors, 4)
            [] s = BLOCKED_FORWARD ->
                 IF ~in_bounds(gr, fx, fy) \/ ~is_empty(gr, fx, fy)
                 THEN Exact(One) ELSE Exact(0)
            [] s = OSCILLATOR -> Oscillator(step, steps_per_gen)]

\* a variant of compute_sensors whose BLOCKED_FORWARD does not count the
\* individual's own cell as an obstacle:
compute_sensors_ahead_excludes_self(self, gr, step, steps_per_gen, rnd) ==
    LET dist_to_edge == Min4(self.x, self.y, gr.width - 1 - self.x,
                             gr.height - 1 - self.y)
        max_possible == Min(gr.width, gr.height) \div 2
        neighbors ==
            Cardinality({d \in {<<-1, 0>>, <<1, 0>>, <<0, -1>>, <<0, 1>>} :
                /\ in_bounds(gr, self.x + d[1], self.y + d[2])
                /\ is_occupied(gr, self.x + d[1], self.y + d[2])})
        fx == self.x + self.last_dx
        fy == self.y + self.last_dy
    IN  [s \in 0..(NUM_SENSORS - 1) |->
          CASE s = LOC_X -> Quotient(self.x, gr.width - 1)
            [] s = LOC_Y -> Quotient(self.y, gr.height - 1)
            [] s = BOUNDARY_DIST -> Quotient(dist_to_edge, max_possible)
            [] s = AGE -> Quotient(step, steps_per_gen)
            [] s = LAST_MOVE_DIR_X -> Quotient(self.last_dx + 1, 2)
            [] s = LAST_MOVE_DIR_Y -> Quotient(self.last_dy + 1, 2)
            [] s = RANDOM -> rnd
            [] s = NEAREST_EDGE_X ->
                 IF self.x <= gr.width - 1 - self.x THEN Exact(0) ELSE Exact(One)
            [] s = NEAREST_EDGE_Y ->
                 IF self.y <= gr.height - 1 - self.y THEN Exact(0) ELSE Exact(One)
            [] s = POPULATION_DENSITY -> Quotient(neighbors, 4)
            [] s = BLOCKED_FORWARD ->
                 IF \/ ~in_bounds(gr, fx, fy)
                    \/ (~is_empty(gr, fx, fy) /\ <<fx, fy>> # <<self.x, self.y>>)
                 THEN Exact(One) ELSE Exact(0)
            [] s = OSCILLATOR -> Oscillator(step, steps_per_gen)]

\* Individual.compute_sensors; rnd is the value rng.random() returns.  A
\* quotient is bracketed by the counts of 1 / One on either side of it
compute_sensors(self, gr, step, steps_per_gen, rnd) ==
    LET dist_to_edge == Min4(self.x, self.y, gr.width - 1 - self.x,
                             gr.height - 1 - self.y)
        max_possible == Min(gr.width, gr.height) \div 2
        neighbors ==
            Cardinality({d \in {<<-1, 0>>, <<1, 0>>, <<0, -1>>, <<0, 1>>} :
                /\ in_bounds(gr, self.x + d[1], self.y + d[2])
                /\ is_occupied(gr, self.x + d[1], self.y + d[2])})
        fx == self.x + self.last_dx
        fy == self.y + self.last_dy
    IN  [s \in 0..(NUM_SENSORS - 1) |->
          CASE s = LOC_X -> Quotient(self.x, gr.width - 1)
            [] s = LOC_Y -> Quotient(self.y, gr.height - 1)
            [] s = BOUNDARY_DIST -> Quotient(dist_to_edge, max_possible)
            [] s = AGE -> Quotient(step, steps_per_gen)
            [] s = LAST_MOVE_DIR_X -> Quotient(self.last_dx + 1, 2)
            [] s = LAST_MOVE_DIR_Y -> Quotient(self.last_dy + 1, 2)
            [] s = RANDOM -> rnd
            [] s = NEAREST_EDGE_X ->
                 IF self.x <= gr.width - 1 - self.x THEN Exact(0) ELSE Exact(One)
            [] s = NEAREST_EDGE_Y ->
                 IF self.y <= gr.height - 1 - self.y THEN Exact(0) ELSE Exact(One)
            [] s = POPULATION_DENSITY -> Quotient(neighbors, 4)
            [] s = BLOCKED_FORWARD ->
                 IF ~in_bounds(gr, fx, fy) \/ ~is_empty(gr, fx, fy)
                 THEN Exact(One) ELSE Exact(0)
            [] s = OSCILLATOR -> Oscillator(step, steps_per_gen)]

\* rng.random() < prob, prob = abs(val) * responsiveness: the outcomes the
\* uniform draw from [0, 1) allows.  The draw can be below prob only if prob
\* can be positive, and at or above it only if prob can be below 1.0
FireOutcomes(val, responsiveness) ==
    LET least == IF val.lo > 0 THEN val.lo ELSE IF val.hi < 0 THEN -val.hi ELSE 0
    IN  {b \in BOOLEAN :
            /\ b => (val.lo < 0 \/ val.hi > 0) /\ responsiveness.hi > 0
            /\ ~b => least * responsiveness.lo < One * One}

\* 1 if val > 0 else -1, for the val of an action that fired (val is not 0
\* then)
Directions(val) ==
    {way \in {-1, 1} : (way = 1 => val.hi > 0) /\ (way = -1 => val.lo < 0)}

\* the draws of one execute_actions call: whether each of the four move
\* actions fires, the way MOVE_X and MOVE_Y push if they fire (1 when they
\* do not), and the direction rng.choice gives MOVE_RANDOM
ActionDraws(self, action_outputs) ==
    LET fires == {f \in [0..3 -> BOOLEAN] :
                    \A a \in 0..3 : f[a] \in FireOutcomes(action_outputs[a], self.responsiveness)}
        ways(f) == {w \in [{MOVE_X, MOVE_Y} -> {-1, 1}] :
                      \A a \in {MOVE_X, MOVE_Y} :
                          w[a] \in (IF f[a] THEN Directions(action_outputs[a]) ELSE {1})}
        choices(f) == IF f[MOVE_RANDOM] THEN {-1, 0, 1} ELSE {0}
    IN  UNION {[fire : {f}, way : ways(f), rdx : choices(f), rdy : choices(f)] : f \in fires}

\* the (move_dx, move_dy) of execute_actions before the clamp: the deltas of
\* the move actions that fired, summed
SummedMove(self, action_outputs, d) ==
    LET move_dx == (IF d.fire[MOVE_X] THEN d.way[MOVE_X] ELSE 0)
                 + (IF d.fire[MOVE_FORWARD] THEN self.last_dx ELSE 0)
                 + (IF d.fire[MOVE_RANDOM] THEN d.rdx ELSE 0)
        move_dy == (IF d.fire[MOVE_Y] THEN d.way[MOVE_Y] ELSE 0)
                 + (IF d.fire[MOVE_FORWARD] THEN self.last_dy ELSE 0)
                 + (IF d.fire[MOVE_RANDOM] THEN d.rdy ELSE 0)
    IN  <<move_dx, move_dy>>

\* a variant of the clamp that lets the summed deltas through
ClampedMove_unclamped(self, action_outputs, d) ==
    SummedMove(self, action_outputs, d)

\* the (move_dx, move_dy) of execute_actions after the clamp
ClampedMove(self, action_outputs, d) ==
    LET sum == SummedMove(self, action_outputs, d)
    IN  <<Max(-1, Min(1, sum[1])), Max(-1, Min(1, sum[2]))>>

\* (self.responsiveness + (val + 1) / 2) / 2, which is
\* (2 * responsiveness + val + 1) / 4
Blend(responsiveness, val) ==
    [lo |-> (2 * responsiveness.lo + val.lo + One) \div 4,
     hi |-> CeilDiv(2 * responsiveness.hi + val.hi + One, 4)]

\* a variant of execute_actions that moves whenever the target is in bounds
\* and not a barrier, occupied or not
execute_actions_no_occupancy_check(self, action_outputs, gr, d) ==
    LET mv == ClampedMove(self, action_outputs, d)
        val == action_outputs[SET_RESPONSIVENESS]
        resp == Blend(self.responsiveness, val)
        new_x == self.x + mv[1]
        new_y == self.y + mv[2]
        moves == /\ (mv[1] # 0 \/ mv[2] # 0)
                 /\ in_bounds(gr, new_x, new_y)
                 /\ ~is_barrier(gr, new_x, new_y)
    IN  [self |-> IF moves
                  THEN [self EXCEPT !.responsiveness = resp, !.x = new_x, !.y = new_y,
                                    !.last_dx = mv[1], !.last_dy = mv[2]]
                  ELSE [self EXCEPT !.responsiveness = resp],
         grid |-> IF moves THEN GridMove(gr, self.x, self.y, new_x, new_y) ELSE gr,
         move |-> mv,
         moved |-> moves,
         sum |-> SummedMove(self, action_outputs, d)]

\* a variant of execute_actions that records the direction of a move it
\* could not make
execute_actions_records_failed_move(self, action_outputs, gr, d) ==
    LET mv == ClampedMove(self, action_outputs, d)
        val == action_outputs[SET_RESPONSIVENESS]
        resp == Blend(self.responsiveness, val)
        new_x == self.x + mv[1]
        new_y == self.y + mv[2]
        moves == /\ (mv[1] # 0 \/ mv[2] # 0)
                 /\ in_bounds(gr, new_x, new_y)
                 /\ is_empty(gr, new_x, new_y)
    IN  [self |-> IF moves
                  THEN [self EXCEPT !.responsiveness = resp, !.x = new_x, !.y = new_y,
                                    !.last_dx = mv[1], !.last_dy = mv[2]]
                  ELSE [self EXCEPT !.responsiveness = resp,
                                    !.last_dx = mv[1], !.last_dy = mv[2]],
         grid |-> IF moves THEN GridMove(gr, self.x, self.y, new_x, new_y) ELSE gr,
         move |-> mv,
         moved |-> moves,
         sum |-> SummedMove(self, action_outputs, d)]

\* Individual.execute_actions with its draws d: the individual and the gr
\* afterwards (and, for the record, the clamped move, whether it was made,
\* and the deltas as summed before the clamp)
execute_actions(self, action_outputs, gr, d) ==
    LET mv == ClampedMove(self, action_outputs, d)
        val == action_outputs[SET_RESPONSIVENESS]
        resp == Blend(self.responsiveness, val)
        new_x == self.x + mv[1]
        new_y == self.y + mv[2]
        moves == /\ (mv[1] # 0 \/ mv[2] # 0)
                 /\ in_bounds(gr, new_x, new_y)
                 /\ is_empty(gr, new_x, new_y)
    IN  [self |-> IF moves
                  THEN [self EXCEPT !.responsiveness = resp, !.x = new_x, !.y = new_y,
                                    !.last_dx = mv[1], !.last_dy = mv[2]]
                  ELSE [self EXCEPT !.responsiveness = resp],
         grid |-> IF moves THEN GridMove(gr, self.x, self.y, new_x, new_y) ELSE gr,
         move |-> mv,
         moved |-> moves,
         sum |-> SummedMove(self, action_outputs, d)]

\* compute_sensors divides by width - 1, height - 1, min(width, height) // 2
\* and steps_per_gen: when one of them is 0 the call raises ZeroDivisionError
compute_sensors_raises(gr, steps_per_gen) ==
    \/ gr.width - 1 = 0
    \/ gr.height - 1 = 0
    \/ Min(gr.width, gr.height) \div 2 = 0
    \/ steps_per_gen = 0

\* take_step raises when a living individual's compute_sensors does
take_step_raises(self, gr, steps_per_gen) ==
    self.alive /\ compute_sensors_raises(gr, steps_per_gen)

\* the readings rng.random() gives the RANDOM sensor: a float of [0, 1),
\* held as the one enclosure that has them all
RandomSamples == {[lo |-> 0, hi |-> One]}

\* Individual.take_step: every outcome of one step of a living individual
\* (sensors, brain, actions), one per choice of the random draws
take_step(self, gr, step, steps_per_gen) ==
    IF ~self.alive
    THEN {[self |-> self, grid |-> gr, move |-> <<0, 0>>, moved |-> FALSE,
           sum |-> <<0, 0>>]}
    ELSE UNION {
        LET sensors == compute_sensors(self, gr, step, steps_per_gen, rnd)
            out == feed_forward(self.brain, sensors)
            thought == [self EXCEPT !.brain.neuron_outputs = out.neuron_outputs]
        IN  {execute_actions(thought, out.action_outputs, gr, d) :
                d \in ActionDraws(thought, out.action_outputs)}
        : rnd \in RandomSamples}

-----------------------------------------------------------------------------
(* genome.py: mutate *)

\* the outcomes of  random.random() < p  for a probability p in fixed point
\* that is positive exactly when rate is and reaches 1.0 when rate reaches
\* certain: the draw can be below p only if p > 0, and at or above it only if
\* p < 1.0
ChanceOutcomes(rate, certain) ==
    {b \in BOOLEAN : (b => rate > 0) /\ (~b => rate < certain)}

\* the bit positions a point mutation is followed through: the ends of the
\* weight field, the low bit of the sink id and the source kind
PointBits == {0, 15, 16, 31}

RECURSIVE PointMutate(_, _, _, _)
\* the loop of Genome.mutate over the genes k..end: each gene is mutated if
\* random.random() < mutation_rate (at most budget genes are followed)
PointMutate(genes, k, mutation_rate, budget) ==
    IF k > Len(genes) THEN {genes}
    ELSE (IF FALSE \in ChanceOutcomes(mutation_rate, One)
          THEN PointMutate(genes, k + 1, mutation_rate, budget) ELSE {})
         \cup
         (IF TRUE \in ChanceOutcomes(mutation_rate, One) /\ budget > 0
          THEN UNION {PointMutate([genes EXCEPT ![k] = mutate(@, bit)], k + 1,
                                  mutation_rate, budget - 1) : bit \in PointBits}
          ELSE {})

\* genes.pop(j - 1)
RemoveAt(genes, j) == SubSeq(genes, 1, j - 1) \o SubSeq(genes, j + 1, Len(genes))

\* the deletion of Genome.mutate: with probability mutation_rate * 0.2, and
\* only if more than one gene is left
Deletion(genes, mutation_rate) ==
    (IF FALSE \in ChanceOutcomes(mutation_rate, 5 * One) \/ Len(genes) <= 1
     THEN {genes} ELSE {})
    \cup
    (IF TRUE \in ChanceOutcomes(mutation_rate, 5 * One) /\ Len(genes) > 1
     THEN {RemoveAt(genes, j) : j \in 1..Len(genes)} ELSE {})

\* a variant of the insertion that appends whatever the length
Insertion_unbounded(genes, mutation_rate) ==
    (IF FALSE \in ChanceOutcomes(mutation_rate, 5 * One)
     THEN {genes} ELSE {})
    \cup
    (IF TRUE \in ChanceOutcomes(mutation_rate, 5 * One)
     THEN {Append(genes, r) : r \in GenePool} ELSE {})

\* the insertion of Genome.mutate: with probability mutation_rate * 0.2, and
\* only if fewer than 50 genes are held
Insertion(genes, mutation_rate) ==
    (IF FALSE \in ChanceOutcomes(mutation_rate, 5 * One) \/ Len(genes) >= MaxGenes
     THEN {genes} ELSE {})
    \cup
    (IF TRUE \in ChanceOutcomes(mutation_rate, 5 * One) /\ Len(genes) < MaxGenes
     THEN {Append(genes, r) : r \in GenePool} ELSE {})

\* Genome.mutate: every genome one call can leave
GenomeMutate(genes, mutation_rate) ==
    UNION {UNION {Insertion(g2, mutation_rate) : g2 \in Deletion(g1, mutation_rate)}
           : g1 \in PointMutate(genes, 1, mutation_rate, MaxPointFlips)}

-----------------------------------------------------------------------------
(* simulation.py *)

\* SelectionCriteria
RIGHT_HALF == 0
LEFT_HALF == 1
CENTER_CIRCLE == 2
CORNERS == 3
RIGHT_QUARTER == 4

\* a selection value that is none of the five criteria
UnknownSelection == RIGHT_QUARTER + 1

\* Simulation.__init__ stores its arguments
Config(world_width, world_height, population_size, genome_length, num_internal_neurons, steps_per_gen, mutation_rate, selection) ==
    [world_width |-> world_width, world_height |-> world_height,
     population_size |-> population_size, genome_length |-> genome_length,
     num_internal_neurons |-> num_internal_neurons,
     steps_per_gen |-> steps_per_gen, mutation_rate |-> mutation_rate,
     selection |-> selection]

\* the free cells _random_empty_location can return: not occupied, not a barrier
FreeCells(g) ==
    {c \in Cells(g.width, g.height) :
        ~is_occupied(g, c[1], c[2]) /\ ~is_barrier(g, c[1], c[2])}

RECURSIVE PlaceAll(_, _, _, _)
\* the placement loop of spawn_generation from genome i on: each genome gets
\* a random free cell, a new Individual there, and index i - 1 in the grid
PlaceAll(g, indivs, genomes, i) ==
    IF i > Len(genomes) THEN {[grid |-> g, individuals |-> indivs]}
    ELSE UNION {PlaceAll(GridSet(g, c[1], c[2], i - 1),
                         Append(indivs, Individual(genomes[i], c[1], c[2])),
                         genomes, i + 1) : c \in FreeCells(g)}

\* a variant of _survives whose half and three-quarter thresholds are rounded
\* up instead of down
survives_rounding_up(c, indiv) ==
    LET w == c.world_width
        h == c.world_height
        quarter_w == w \div 4
        quarter_h == h \div 4
        m == Min(w, h)
    IN  CASE c.selection = RIGHT_HALF -> indiv.x >= (w + 1) \div 2
          [] c.selection = LEFT_HALF -> indiv.x < (w + 1) \div 2
          [] c.selection = CENTER_CIRCLE ->
               (4 * indiv.x - 2 * w) * (4 * indiv.x - 2 * w)
                 + (4 * indiv.y - 2 * h) * (4 * indiv.y - 2 * h) <= m * m
          [] c.selection = CORNERS ->
               /\ (indiv.x < quarter_w \/ indiv.x >= w - quarter_w)
               /\ (indiv.y < quarter_h \/ indiv.y >= h - quarter_h)
          [] c.selection = RIGHT_QUARTER -> indiv.x >= (w * 3 + 3) \div 4
          [] OTHER -> TRUE

\* a variant of _survives whose circle is computed with floor divisions
survives_integer_circle(c, indiv) ==
    LET w == c.world_width
        h == c.world_height
        quarter_w == w \div 4
        quarter_h == h \div 4
        m == Min(w, h)
    IN  CASE c.selection = RIGHT_HALF -> indiv.x >= w \div 2
          [] c.selection = LEFT_HALF -> indiv.x < w \div 2
          [] c.selection = CENTER_CIRCLE ->
               (indiv.x - w \div 2) * (indiv.x - w \div 2)
                 + (indiv.y - h \div 2) * (indiv.y - h \div 2)
                 <= (m \div 4) * (m \div 4)
          [] c.selection = CORNERS ->
               /\ (indiv.x < quarter_w \/ indiv.x >= w - quarter_w)
               /\ (indiv.y < quarter_h \/ indiv.y >= h - quarter_h)
          [] c.selection = RIGHT_QUARTER -> indiv.x >= (w * 3) \div 4
          [] OTHER -> TRUE

\* Simulation._survives
survives(c, indiv) ==
    LET w == c.world_width
        h == c.world_height
        quarter_w == w \div 4
        quarter_h == h \div 4
        m == Min(w, h)
    IN  CASE c.selection = RIGHT_HALF -> indiv.x >= w \div 2
          [] c.selection = LEFT_HALF -> indiv.x < w \div 2
          [] c.selection = CENTER_CIRCLE ->
               \* (x - w/2)^2 + (y - h/2)^2 <= (min(w, h)/4)^2, times 16
               (4 * indiv.x - 2 * w) * (4 * indiv.x - 2 * w)
                 + (4 * indiv.y - 2 * h) * (4 * indiv.y - 2 * h) <= m * m
          [] c.selection = CORNERS ->
               /\ (indiv.x < quarter_w \/ indiv.x >= w - quarter_w)
               /\ (indiv.y < quarter_h \/ indiv.y >= h - quarter_h)
          [] c.selection = RIGHT_QUARTER -> indiv.x >= (w * 3) \div 4
          [] OTHER -> TRUE

\* a variant of apply_selection that keeps every living individual
apply_selection_unfiltered(c, indivs) ==
    LET Passes(indiv) == indiv.alive
    IN  SelectSeq(indivs, Passes)

\* Simulation.apply_selection: the living individuals that pass, in order
apply_selection(c, indivs) ==
    LET Passes(indiv) == indiv.alive /\ survives(c, indiv)
    IN  SelectSeq(indivs, Passes)

\* the child genomes one pass of a loop of reproduce can append
ChildGenomes(c, survivors) ==
    IF Len(survivors) = 0 THEN GenomeRandom(c.genome_length)
    ELSE IF Len(survivors) = 1
    THEN GenomeMutate(survivors[1].genome, c.mutation_rate)
    ELSE UNION {UNION {UNION {UNION {
            GenomeMutate(crossover(survivors[a].genome, survivors[b].genome,
                                   ca, cb, rnd), c.mutation_rate)
            : rnd \in GenePool}
            : cb \in 0..Len(survivors[b].genome)}
            : ca \in 0..Len(survivors[a].genome)}
            : <<a, b>> \in {t \in (1..Len(survivors)) \X (1..Len(survivors)) :
                              t[1] # t[2]}}

\* a variant of reproduce that draws one child and hands out population_size
\* copies of it
reproduce_copies(c, survivors) ==
    {[k \in 1..c.population_size |-> g] : g \in ChildGenomes(c, survivors)}

\* Simulation.reproduce: every list of population_size child genomes
reproduce(c, survivors) ==
    [1..c.population_size -> ChildGenomes(c, survivors)]

RECURSIVE SumLen(_, _)
SumLen(indivs, k) ==
    IF k > Len(indivs) THEN 0 ELSE Len(indivs[k].genome) + SumLen(indivs, k + 1)

\* a variant of the stats record built after generation has been advanced
Stats_after_increment(c, gen, kills, survivors) ==
    [generation |-> gen + 1,
     survivors |-> Len(survivors),
     survival_rate |-> (Len(survivors) * One) \div c.population_size,
     kill_count |-> kills,
     avg_genome_length |->
        IF Len(survivors) = 0 THEN 0
        ELSE (SumLen(survivors, 1) * One) \div Len(survivors)]

\* a variant of the stats record that counts as killed the individuals that
\* did not survive
Stats_counts_losers(c, gen, kills, survivors) ==
    [generation |-> gen,
     survivors |-> Len(survivors),
     survival_rate |-> (Len(survivors) * One) \div c.population_size,
     kill_count |-> c.population_size - Len(survivors),
     avg_genome_length |->
        IF Len(survivors) = 0 THEN 0
        ELSE (SumLen(survivors, 1) * One) \div Len(survivors)]

\* the stats record of run_one_generation
Stats(c, gen, kills, survivors) ==
    [generation |-> gen,
     survivors |-> Len(survivors),
     survival_rate |-> (Len(survivors) * One) \div c.population_size,
     kill_count |-> kills,
     avg_genome_length |->
        IF Len(survivors) = 0 THEN 0
        ELSE (SumLen(survivors, 1) * One) \div Len(survivors)]

-----------------------------------------------------------------------------
(* The harnesses at rest: a specification leaves the others' variables alone *)

NoGene == Gene(0, 0, 0, 0, 0)
NoWord == [hi |-> 0, lo |-> 0]

GeneIdle ==
    /\ gene = NoGene /\ gprev = NoGene /\ gword = NoWord
    /\ gop = "idle" /\ gbit = -1 /\ gflips = 0

CrossIdle ==
    /\ xa = <<>> /\ xb = <<>> /\ xcut = <<0, 0>>
    /\ xrnd = NoGene /\ xchild = <<>> /\ xop = "idle"

BrainIdle ==
    /\ bgenome = <<>> /\ bbrain = Brain(<<>>, NUM_SENSORS, NUM_ACTIONS, NUM_INTERNAL)
    /\ bop = "idle"

SimIdle ==
    /\ cfg = Config(2, 2, 1, 1, NUM_INTERNAL, 1, 0, RIGHT_HALF)
    /\ grid = Grid(2, 2)
    /\ individuals = <<>>
    /\ generation = 0 /\ current_step = 0 /\ kill_count = 0
    /\ history = <<>>
    /\ pc = "off" /\ cursor = 0 /\ ticks_left = 0 /\ tick_log = <<>>

FeedIdle ==
    /\ fbrain = Brain(<<>>, NUM_SENSORS, NUM_ACTIONS, NUM_INTERNAL)
    /\ fsens = [s \in 0..(NUM_SENSORS - 1) |-> Exact(0)]
    /\ fprev = [i \in 0..(NUM_INTERNAL - 1) |-> Exact(0)]
    /\ fout = [i \in 0..(NUM_ACTIONS - 1) |-> Exact(0)]
    /\ fcalls = -1

SelIdle ==
    /\ sel_cfg = Config(2, 2, 1, 1, NUM_INTERNAL, 1, 0, RIGHT_HALF)
    /\ sel_pop = <<>> /\ sel_survivors = <<>> /\ sel_calls = -1

ReproIdle ==
    /\ rcfg = Config(2, 2, 1, 1, NUM_INTERNAL, 1, 0, RIGHT_HALF)
    /\ rheap = <<>> /\ rsurv = <<>> /\ rsnap = <<>> /\ rchildren = <<>>
    /\ rop = "idle"

NoCell == <<-1, -1>>

SpawnIdle ==
    /\ sp_genomes = <<>> /\ sp_draw = NoCell

MutIdle ==
    /\ mu_genes = <<>> /\ mu_rate = 0 /\ mu_pointed = <<>> /\ mu_deleted = <<>>
    /\ mu_after = <<>> /\ mu_op = "idle"

GuiIdle ==
    /\ gui_running = FALSE /\ gui_paused = FALSE /\ gui_phase = "off"
    /\ gui_avg_genes = 0 /\ gui_iter = 0 /\ gui_settings = <<>> /\ gui_moves = 0

-----------------------------------------------------------------------------
(* Inputs of SpecGene *)

\* weight codes around every edge of the 16-bit range
CodeSamples == {-32769, -32768, -32767, -16384, -2, -1, 0, 1, 2, 16383, 32766, 32767, 32768}

\* weights: every sub-step around the sampled codes (some lie outside [-4, 4])
WeightSamples == {c * WRes + f : c \in CodeSamples, f \in (1 - WRes)..(WRes - 1)}

\* (source kind, source id, sink kind, sink id) combinations
FieldSamples == {<<0, 0, 0, 0>>, <<1, 127, 1, 127>>, <<1, 5, 0, 85>>, <<0, 64, 1, 1>>}

GeneInputs == {Gene(f[1], f[2], f[3], f[4], w) : f \in FieldSamples, w \in WeightSamples}

\* 32-bit words given to from_int
HiSamples == {0, 1, 127, 128, 255, 256, 21845, 32767, 32768, 43690, 65535}
LoSamples == {0, 1, 2, 16383, 16384, 32766, 32767, 32768, 32769, 43690, 65534, 65535}
WordSamples == {[hi |-> h, lo |-> l] : h \in HiSamples, l \in LoSamples}

\* weight in [-4.0, 4.0]
WeightInRange(w) == -CodeMax * WRes <= w /\ w <= CodeMax * WRes

-----------------------------------------------------------------------------
(* SpecGene: the Gene operations applied to one gene object *)

GeneInit ==
    /\ gene \in GeneInputs
    /\ gprev = gene
    /\ gword = [hi |-> 0, lo |-> 0]
    /\ gop = "init"
    /\ gbit = -1
    /\ gflips = 0

\* p = gene.to_int()
GeneToInt ==
    /\ gop # "to_int"
    /\ gword' = to_int(gene)
    /\ gop' = "to_int"
    /\ UNCHANGED <<gene, gprev, gbit, gflips>>
    /\ UNCHANGED <<crossVars, brainVars, simVars, feedVars, selVars, reproVars,
                   spawnVars, mutVars, guiVars>>

\* gene = Gene.from_int(p) for a given word p
GeneFromInt ==
    \E p \in WordSamples :
        /\ gop = "init"
        /\ gene' = from_int(p)
        /\ gword' = p
        /\ gop' = "from_int"
        /\ gprev' = from_int(p)
        /\ UNCHANGED <<gbit, gflips>>
        /\ UNCHANGED <<crossVars, brainVars, simVars, feedVars, selVars, reproVars,
                   spawnVars, mutVars, guiVars>>

\* gene = Gene.from_int(gene.to_int())
GeneRoundTrip ==
    /\ gop # "roundtrip"
    /\ gword' = to_int(gene)
    /\ gene' = from_int(to_int(gene))
    /\ gop' = "roundtrip"
    /\ gprev' = gene
    /\ UNCHANGED <<gbit, gflips>>
    /\ UNCHANGED <<crossVars, brainVars, simVars, feedVars, selVars, reproVars,
                   spawnVars, mutVars, guiVars>>

\* gene.mutate() with bit = random.randint(0, 31)
GeneMutate ==
    /\ gflips < MaxFlips
    /\ \E bit \in 0..31 :
        /\ gene' = mutate(gene, bit)
        /\ gword' = FlipWordBit(to_int(gene), bit)
        /\ gbit' = bit
    /\ gop' = "mutate"
    /\ gprev' = gene
    /\ gflips' = gflips + 1
    /\ UNCHANGED <<crossVars, brainVars, simVars, feedVars, selVars, reproVars,
                   spawnVars, mutVars, guiVars>>

GeneNext == GeneToInt \/ GeneFromInt \/ GeneRoundTrip \/ GeneMutate

InitGene ==
    GeneInit /\ CrossIdle /\ BrainIdle /\ SimIdle /\ FeedIdle /\ SelIdle /\ ReproIdle /\ SpawnIdle
        /\ MutIdle /\ GuiIdle

SpecGene == InitGene /\ [][GeneNext]_vars

-----------------------------------------------------------------------------
(* SpecCross: Genome.crossover applied to two parents *)

\* the lengths of the parents: the short ones and those around the cap
ParentLens ==
    (0..MaxShortLen) \cup {MaxGenes \div 2 + 1, MaxGenes, MaxGenes + 1}

\* parent_a of length n: gene k is a sensor-to-neuron gene numbered k
ParentA(n) == [k \in 1..n |-> Gene(1, k, 0, 0, k * WRes)]
\* parent_b of length n: gene k is a neuron-to-action gene numbered k
ParentB(n) == [k \in 1..n |-> Gene(0, k, 1, 100, -k * WRes)]

CrossInit ==
    /\ \E n \in ParentLens : xa = ParentA(n)
    /\ \E n \in ParentLens : xb = ParentB(n)
    /\ xcut = <<0, 0>>
    /\ xrnd = NoGene
    /\ xchild = <<>>
    /\ xop = "init"

\* child = Genome.crossover(parent_a, parent_b)
CrossCrossover ==
    /\ xop = "init"
    /\ \E ca \in 0..Len(xa), cb \in 0..Len(xb), rnd \in GenePool :
        /\ xcut' = <<ca, cb>>
        /\ xrnd' = rnd
        /\ xchild' = crossover(xa, xb, ca, cb, rnd)
    /\ xop' = "crossover"
    /\ UNCHANGED <<xa, xb>>
    /\ UNCHANGED <<geneVars, brainVars, simVars, feedVars, selVars, reproVars,
                   spawnVars, mutVars, guiVars>>

CrossNext == CrossCrossover

InitCross ==
    CrossInit /\ GeneIdle /\ BrainIdle /\ SimIdle /\ FeedIdle /\ SelIdle /\ ReproIdle /\ SpawnIdle
        /\ MutIdle /\ GuiIdle

SpecCross == InitCross /\ [][CrossNext]_vars

-----------------------------------------------------------------------------
(* SpecBrain: Brain(...) built from a genome *)

BrainIdSamples == {0, 1, 3, 4, 5, 6, 11, 12, 13, 24, 60, 64, 100, 125, 126, 127}

\* a genome of n genes grown from a first gene: kinds alternate and the raw
\* ids walk through 0..127
BrainGenome(st, sid, kt, kid, n) ==
    [k \in 1..n |-> Gene((st + k - 1) % 2, (sid + 37 * (k - 1)) % 128,
                         (kt + (k - 1) \div 2) % 2, (kid + 91 * (k - 1)) % 128,
                         (sid - kid) * WRes)]

BrainInit ==
    /\ \E st \in {0, 1}, sid \in BrainIdSamples, kt \in {0, 1}, kid \in BrainIdSamples,
          n \in 0..MaxBrainLen : bgenome = BrainGenome(st, sid, kt, kid, n)
    /\ bbrain = Brain(<<>>, NUM_SENSORS, NUM_ACTIONS, NUM_INTERNAL)
    /\ bop = "init"

\* brain = Brain(genome, NUM_SENSORS, NUM_ACTIONS, NUM_INTERNAL)
BrainBuild ==
    /\ bop = "init"
    /\ bbrain' = Brain(bgenome, NUM_SENSORS, NUM_ACTIONS, NUM_INTERNAL)
    /\ bop' = "built"
    /\ UNCHANGED bgenome
    /\ UNCHANGED <<geneVars, crossVars, simVars, feedVars, selVars, reproVars,
                   spawnVars, mutVars, guiVars>>

BrainNext == BrainBuild

InitBrain ==
    BrainInit /\ GeneIdle /\ CrossIdle /\ SimIdle /\ FeedIdle /\ SelIdle /\ ReproIdle /\ SpawnIdle
        /\ MutIdle /\ GuiIdle

SpecBrain == InitBrain /\ [][BrainNext]_vars

-----------------------------------------------------------------------------
(* SpecFeed: Brain.feed_forward called again and again on one brain *)

\* the genes the brains of SpecFeed are wired from: LOC_X -> neuron 0,
\* neuron 0 -> MOVE_X, neuron 0 -> neuron 1, neuron 1 -> MOVE_Y, and
\* LOC_Y -> MOVE_X (weights +4.0, +4.0, -2.0, +4.0, +2.0; neuron ids are
\* given unfolded)
FeedGenePool ==
    { Gene(1, LOC_X, 0, 4, CodeMax * WRes),
      Gene(0, 8, 1, MOVE_X, CodeMax * WRes),
      Gene(0, 0, 0, 1, -((CodeMax * WRes) \div 2)),
      Gene(0, 1, 1, MOVE_Y, CodeMax * WRes),
      Gene(1, LOC_Y, 1, MOVE_X, (CodeMax * WRes) \div 2) }

FeedGenomes == UNION {[1..n -> FeedGenePool] : n \in 0..MaxFeedLen}

\* the sensor dictionaries given to feed_forward: LOC_X and LOC_Y at 0.0 or
\* 1.0, every other sensor at 0.0
FeedSensors ==
    {[s \in 0..(NUM_SENSORS - 1) |->
        IF s = LOC_X THEN Exact(vx) ELSE IF s = LOC_Y THEN Exact(vy) ELSE Exact(0)]
     : vx \in {0, One}, vy \in {0, One}}

FeedInit ==
    /\ \E g \in FeedGenomes : fbrain = Brain(g, NUM_SENSORS, NUM_ACTIONS, NUM_INTERNAL)
    /\ fsens = [s \in 0..(NUM_SENSORS - 1) |-> Exact(0)]
    /\ fprev = [i \in 0..(NUM_INTERNAL - 1) |-> Exact(0)]
    /\ fout = [i \in 0..(NUM_ACTIONS - 1) |-> Exact(0)]
    /\ fcalls = 0

\* action_outputs = brain.feed_forward(sensor_values)
FeedCall ==
    /\ fcalls >= 0
    /\ fcalls < MaxFeedCalls
    /\ \E sensor_values \in FeedSensors :
        LET out == feed_forward(fbrain, sensor_values)
        IN  /\ fbrain' = [fbrain EXCEPT !.neuron_outputs = out.neuron_outputs]
            /\ fout' = out.action_outputs
            /\ fsens' = sensor_values
    /\ fprev' = fbrain.neuron_outputs
    /\ fcalls' = fcalls + 1
    /\ UNCHANGED <<geneVars, crossVars, brainVars, simVars, selVars, reproVars,
                   spawnVars, mutVars, guiVars>>

FeedNext == FeedCall

InitFeed ==
    FeedInit /\ GeneIdle /\ CrossIdle /\ BrainIdle /\ SimIdle /\ SelIdle /\ ReproIdle /\ SpawnIdle
        /\ MutIdle /\ GuiIdle

SpecFeed == InitFeed /\ [][FeedNext]_vars

-----------------------------------------------------------------------------
(* SpecRepro: Simulation.reproduce with the Gene objects told apart.  A      *)
(* genome is a list of object ids; rheap[i] holds the fields of object i.    *)
(* Gene.copy and Gene.random make a new object, Gene.mutate changes the      *)
(* fields of an object in place.                                             *)

\* a variant of Gene.copy that hands back the object itself
GeneCopy_same_object(heap, id) == [heap |-> heap, id |-> id]

\* Gene.copy: a new Gene object with the same five fields
GeneCopy(heap, id) == [heap |-> Append(heap, heap[id]), id |-> Len(heap) + 1]

RECURSIVE CopyAll(_, _)
\* [g.copy() for g in genes]
CopyAll(heap, genes) ==
    IF genes = <<>> THEN [heap |-> heap, genes |-> <<>>]
    ELSE LET first == GeneCopy(heap, Head(genes))
             rest == CopyAll(first.heap, Tail(genes))
         IN  [heap |-> rest.heap, genes |-> <<first.id>> \o rest.genes]

\* Genome.random(num_genes) with the genes drawn: num_genes new objects
HeapGenomeRandom(heap, drawn) ==
    [heap |-> heap \o drawn,
     genes |-> [k \in 1..Len(drawn) |-> Len(heap) + k]]

\* Genome.crossover on objects: copies of parent_a's prefix and of parent_b's
\* suffix, cut to 50, or one new random gene if that is empty
HeapCrossover(heap, parent_a, parent_b, parent_a_genes, parent_b_genes, rnd) ==
    LET head == CopyAll(heap, Prefix(parent_a, parent_a_genes))
        tail == CopyAll(head.heap, Suffix(parent_b, parent_b_genes))
        child_genes == head.genes \o tail.genes
        capped == IF Len(child_genes) > MaxGenes THEN Prefix(child_genes, MaxGenes)
                  ELSE child_genes
    IN  IF Len(capped) = 0
        THEN [heap |-> Append(tail.heap, rnd), genes |-> <<Len(tail.heap) + 1>>]
        ELSE [heap |-> tail.heap, genes |-> capped]

RECURSIVE HeapPointMutate(_, _, _, _, _)
\* the point-mutation loop of Genome.mutate on objects: gene.mutate() changes
\* the object the genome's k-th entry refers to
HeapPointMutate(heap, genes, k, mutation_rate, budget) ==
    IF k > Len(genes) THEN {heap}
    ELSE (IF FALSE \in ChanceOutcomes(mutation_rate, One)
          THEN HeapPointMutate(heap, genes, k + 1, mutation_rate, budget) ELSE {})
         \cup
         (IF TRUE \in ChanceOutcomes(mutation_rate, One) /\ budget > 0
          THEN UNION {HeapPointMutate([heap EXCEPT ![genes[k]] = mutate(@, bit)],
                                      genes, k + 1, mutation_rate, budget - 1)
                      : bit \in PointBits}
          ELSE {})

\* the insertion of Genome.mutate on objects: a new random gene is appended
HeapInsertion(heap, genes, mutation_rate) ==
    (IF FALSE \in ChanceOutcomes(mutation_rate, 5 * One) \/ Len(genes) >= MaxGenes
     THEN {[heap |-> heap, genes |-> genes]} ELSE {})
    \cup
    (IF TRUE \in ChanceOutcomes(mutation_rate, 5 * One) /\ Len(genes) < MaxGenes
     THEN {[heap |-> Append(heap, r), genes |-> Append(genes, Len(heap) + 1)]
           : r \in GenePool}
     ELSE {})

\* Genome.mutate on objects
HeapGenomeMutate(heap, genes, mutation_rate) ==
    UNION {UNION {HeapInsertion(h1, g2, mutation_rate)
                  : g2 \in Deletion(genes, mutation_rate)}
           : h1 \in HeapPointMutate(heap, genes, 1, mutation_rate, MaxPointFlips)}

\* a variant of the loop body of reproduce that may draw the same survivor
\* as both parents
HeapChild_any_pair(c, heap, survivors) ==
    IF Len(survivors) = 0
    THEN {HeapGenomeRandom(heap, drawn) : drawn \in GenomeRandom(c.genome_length)}
    ELSE IF Len(survivors) = 1
    THEN LET child == CopyAll(heap, survivors[1])
         IN  HeapGenomeMutate(child.heap, child.genes, c.mutation_rate)
    ELSE UNION {UNION {UNION {UNION {
            LET child == HeapCrossover(heap, survivors[a], survivors[b], ca, cb, rnd)
            IN  HeapGenomeMutate(child.heap, child.genes, c.mutation_rate)
            : rnd \in GenePool}
            : cb \in 0..Len(survivors[b])}
            : ca \in 0..Len(survivors[a])}
            : <<a, b>> \in (1..Len(survivors)) \X (1..Len(survivors))}

\* one pass of a loop of reproduce on objects: the heap afterwards and the
\* child genome appended
HeapChild(c, heap, survivors) ==
    IF Len(survivors) = 0
    THEN {HeapGenomeRandom(heap, drawn) : drawn \in GenomeRandom(c.genome_length)}
    ELSE IF Len(survivors) = 1
    THEN LET child == CopyAll(heap, survivors[1])
         IN  HeapGenomeMutate(child.heap, child.genes, c.mutation_rate)
    ELSE UNION {UNION {UNION {UNION {
            LET child == HeapCrossover(heap, survivors[a], survivors[b], ca, cb, rnd)
            IN  HeapGenomeMutate(child.heap, child.genes, c.mutation_rate)
            : rnd \in GenePool}
            : cb \in 0..Len(survivors[b])}
            : ca \in 0..Len(survivors[a])}
            : <<a, b>> \in {t \in (1..Len(survivors)) \X (1..Len(survivors)) :
                              t[1] # t[2]}}

\* the engines of SpecRepro: two children without mutation, one with
ReproConfigs ==
    { Config(2, 2, 2, 1, 3, 1, 0, RIGHT_HALF),
      Config(3, 2, 1, 2, 4, 1, 10, LEFT_HALF) }

\* the genomes the survivors hold: one or two genes, the two genes of
\* GenePool in turn
ReproGenomes ==
    LET first == CHOOSE g \in GenePool : g.sink_id = 5
        second == CHOOSE g \in GenePool : g.sink_id = 1
    IN  {<<first>>, <<first, second>>}

RECURSIVE Store(_, _)
\* the survivors' genomes laid out as objects, one after the other
Store(heap, genomes) ==
    IF genomes = <<>> THEN [heap |-> heap, lists |-> <<>>]
    ELSE LET first == HeapGenomeRandom(heap, Head(genomes))
             rest == Store(first.heap, Tail(genomes))
         IN  [heap |-> rest.heap, lists |-> <<first.genes>> \o rest.lists]

ReproInit ==
    /\ rcfg \in ReproConfigs
    /\ \E n \in 0..MaxSurvivors : \E genomes \in [1..n -> ReproGenomes] :
        /\ rheap = Store(<<>>, genomes).heap
        /\ rsurv = Store(<<>>, genomes).lists
        /\ rsnap = genomes
    /\ rchildren = <<>>
    /\ rop = "init"

\* one pass of the loop of reproduce(survivors); the call returns after
\* population_size passes
ReproChild ==
    /\ rop \in {"init", "reproduce"}
    /\ Len(rchildren) < rcfg.population_size
    /\ \E child \in HeapChild(rcfg, rheap, rsurv) :
        /\ rheap' = child.heap
        /\ rchildren' = Append(rchildren, child.genes)
    /\ rop' = IF Len(rchildren) + 1 = rcfg.population_size THEN "returned"
              ELSE "reproduce"
    /\ UNCHANGED <<rcfg, rsurv, rsnap>>
    /\ UNCHANGED <<geneVars, crossVars, brainVars, simVars, feedVars, selVars,
                   spawnVars, mutVars, guiVars>>

\* after reproduce has returned, a gene of a child is mutated:
\* children[k].genes[j].mutate()
ReproMutateChild ==
    /\ rop = "returned"
    /\ \E k \in 1..Len(rchildren) : \E j \in 1..Len(rchildren[k]) : \E bit \in PointBits :
        rheap' = [rheap EXCEPT ![rchildren[k][j]] = mutate(@, bit)]
    /\ rop' = "mutated"
    /\ UNCHANGED <<rcfg, rsurv, rsnap, rchildren>>
    /\ UNCHANGED <<geneVars, crossVars, brainVars, simVars, feedVars, selVars,
                   spawnVars, mutVars, guiVars>>

ReproNext == ReproChild \/ ReproMutateChild

InitRepro ==
    ReproInit /\ GeneIdle /\ CrossIdle /\ BrainIdle /\ SimIdle /\ FeedIdle /\ SelIdle /\ SpawnIdle
        /\ MutIdle /\ GuiIdle

SpecRepro == InitRepro /\ [][ReproNext]_vars

-----------------------------------------------------------------------------
(* SpecSelect: apply_selection called on a population standing anywhere *)

\* the worlds of SpecSelect, <<world_width, world_height>>: widths that are
\* and are not multiples of 2 and of 4
SelWorlds == {<<2, 2>>, <<3, 2>>, <<4, 4>>, <<5, 3>>, <<6, 5>>, <<7, 2>>, <<8, 8>>}

\* the selection values: the five criteria and one that is none of them
SelSelections ==
    {RIGHT_HALF, LEFT_HALF, CENTER_CIRCLE, CORNERS, RIGHT_QUARTER, UnknownSelection}

\* the populations of a world: one individual on any cell, or two, one of
\* them on a corner cell
SelPopulations(w, h) ==
    LET genome == <<CHOOSE g \in GenePool : g.sink_id = 5>>
        corners == {0, w - 1} \X {0, h - 1}
        lists == {<<c>> : c \in Cells(w, h)}
                 \cup {<<c, d>> : c \in Cells(w, h), d \in corners}
                 \cup {<<d, c>> : c \in Cells(w, h), d \in corners}
    IN  {[k \in 1..Len(l) |-> Individual(genome, l[k][1], l[k][2])] :
            l \in {m \in lists : Len(m) = 1 \/ m[1] # m[2]}}

SelInit ==
    /\ \E world \in SelWorlds : \E selection \in SelSelections :
        /\ sel_cfg = Config(world[1], world[2], 2, 1, NUM_INTERNAL, 1, 0, selection)
        /\ sel_pop \in SelPopulations(world[1], world[2])
    /\ sel_survivors = <<>>
    /\ sel_calls = 0

\* survivors = sim.apply_selection(): the call assigns to nothing but its
\* local list
SelectCall ==
    /\ sel_calls >= 0
    /\ sel_calls < MaxSelCalls
    /\ sel_survivors' = apply_selection(sel_cfg, sel_pop)
    /\ sel_calls' = sel_calls + 1
    /\ UNCHANGED <<sel_cfg, sel_pop>>
    /\ UNCHANGED <<geneVars, crossVars, brainVars, simVars, feedVars, reproVars,
                   spawnVars, mutVars, guiVars>>

SelectNext == SelectCall

InitSelect ==
    SelInit /\ GeneIdle /\ CrossIdle /\ BrainIdle /\ SimIdle /\ FeedIdle /\ ReproIdle /\ SpawnIdle
        /\ MutIdle /\ GuiIdle

SpecSelect == InitSelect /\ [][SelectNext]_vars

-----------------------------------------------------------------------------
(* Spec: the Simulation engine driven by spawn_generation(), run_step() and  *)
(* run_one_generation()                                                      *)

\* the engines explored: Simulation(world_width, world_height,
\* population_size, genome_length, num_internal_neurons, steps_per_gen,
\* mutation_rate, selection); a mutation rate of 10 is 10/1024, about 0.01
Configs ==
    { Config(2, 2, 2, 1, 3, 2, 0, RIGHT_HALF),
      Config(3, 2, 1, 2, 4, 1, 10, LEFT_HALF),
      Config(2, 2, 2, 0, 3, 1, 0, UnknownSelection),
      Config(1, 2, 1, 1, 4, 1, 0, LEFT_HALF),
      Config(2, 2, 1, 0, 4, 1, 0, UnknownSelection) }

\* how many run_one_generation calls an engine is followed through: one more
\* for the engine whose single individual has no gene and never moves
Generations(c) ==
    IF c.population_size = 1 /\ c.genome_length = 0 THEN MaxGen + 1 ELSE MaxGen

\* the cells grid.add_barrier is called on before the first spawn
BarrierSites == {<<1, 1>>}

Init ==
    /\ cfg \in Configs
    /\ grid = Grid(cfg.world_width, cfg.world_height)
    /\ individuals = <<>>
    /\ generation = 0
    /\ current_step = 0
    /\ kill_count = 0
    /\ history = <<>>
    /\ pc = "new"
    /\ cursor = 0
    /\ ticks_left = 0
    /\ tick_log = <<>>
    /\ GeneIdle /\ CrossIdle /\ BrainIdle /\ FeedIdle /\ SelIdle /\ ReproIdle
    /\ SpawnIdle
    /\ MutIdle /\ GuiIdle
        /\ MutIdle /\ GuiIdle

\* sim.grid.add_barrier(x, y) on the new engine, leaving room for the population
AddBarrier ==
    /\ pc = "new"
    /\ \E site \in BarrierSites \ grid.barriers :
        /\ in_bounds(grid, site[1], site[2])
        /\ Cardinality(FreeCells(grid)) - 1 >= cfg.population_size
        /\ grid' = GridAddBarrier(grid, site[1], site[2])
    /\ UNCHANGED <<cfg, individuals, generation, current_step, kill_count,
                   history, pc, cursor, ticks_left, tick_log>>
    /\ UNCHANGED <<geneVars, crossVars, brainVars, feedVars, selVars, reproVars,
                   spawnVars, mutVars, guiVars>>

\* sim.spawn_generation(): grid cleared, population and counters reset,
\* population_size random genomes of genome_length genes, each placed.
\* What the call leaves depends on nothing the ticks change, so the calls
\* made between ticks reach the same states as the calls followed here.
SpawnGeneration ==
    /\ pc = "new" \/ (pc = "idle" /\ current_step = 0)
    /\ \E genomes \in [1..cfg.population_size -> GenomeRandom(cfg.genome_length)] :
         \E placed \in PlaceAll(GridClear(grid), <<>>, genomes, 1) :
            /\ grid' = placed.grid
            /\ individuals' = placed.individuals
    /\ current_step' = 0
    /\ kill_count' = 0
    /\ pc' = "idle"
    /\ UNCHANGED <<cfg, generation, history, cursor, ticks_left, tick_log>>
    /\ UNCHANGED <<geneVars, crossVars, brainVars, feedVars, selVars, reproVars,
                   spawnVars, mutVars, guiVars>>

\* the driver calls sim.run_step()
RunStepCall ==
    /\ pc = "idle"
    /\ current_step < MaxStep
    /\ pc' = "run_step"
    /\ cursor' = 1
    /\ tick_log' = <<>>
    /\ UNCHANGED <<cfg, grid, individuals, generation, current_step, kill_count,
                   history, ticks_left>>
    /\ UNCHANGED <<geneVars, crossVars, brainVars, feedVars, selVars, reproVars,
                   spawnVars, mutVars, guiVars>>

\* the driver calls sim.run_one_generation(): run_all_steps begins
RunOneGenerationCall ==
    /\ pc = "idle"
    /\ generation < Generations(cfg)
    /\ current_step + cfg.steps_per_gen <= MaxStep
    /\ pc' = IF cfg.steps_per_gen > 0 THEN "run_all_steps" ELSE "selection"
    /\ ticks_left' = cfg.steps_per_gen
    /\ cursor' = IF cfg.steps_per_gen > 0 THEN 1 ELSE 0
    /\ tick_log' = <<>>
    /\ UNCHANGED <<cfg, grid, individuals, generation, current_step, kill_count,
                   history>>
    /\ UNCHANGED <<geneVars, crossVars, brainVars, feedVars, selVars, reproVars,
                   spawnVars, mutVars, guiVars>>

\* one pass of the loop of run_step: the individual at the cursor takes its
\* step against the grid as the earlier individuals left it
TakeStep ==
    /\ pc \in {"run_step", "run_all_steps"}
    /\ cursor <= Len(individuals)
    /\ ~take_step_raises(individuals[cursor], grid, cfg.steps_per_gen)
    /\ \E o \in take_step(individuals[cursor], grid, current_step, cfg.steps_per_gen) :
        /\ individuals' = [individuals EXCEPT ![cursor] = o.self]
        /\ grid' = o.grid
        /\ tick_log' = Append(tick_log,
                              [from |-> <<individuals[cursor].x, individuals[cursor].y>>,
                               move |-> o.move, moved |-> o.moved,
                               sum |-> o.sum])
    /\ cursor' = cursor + 1
    /\ UNCHANGED <<cfg, generation, current_step, kill_count, history, pc, ticks_left>>
    /\ UNCHANGED <<geneVars, crossVars, brainVars, feedVars, selVars, reproVars,
                   spawnVars, mutVars, guiVars>>

\* the individual's take_step raises ZeroDivisionError: nothing catches it in
\* run_step, run_all_steps or run_one_generation, and the call ends there
TakeStepRaises ==
    /\ pc \in {"run_step", "run_all_steps"}
    /\ cursor <= Len(individuals)
    /\ take_step_raises(individuals[cursor], grid, cfg.steps_per_gen)
    /\ pc' = "error"
    /\ UNCHANGED <<cfg, grid, individuals, generation, current_step, kill_count,
                   history, cursor, ticks_left, tick_log>>
    /\ UNCHANGED <<geneVars, crossVars, brainVars, feedVars, selVars, reproVars,
                   spawnVars, mutVars, guiVars>>

\* the loop of run_step is over: current_step += 1; run_step returns, or
\* run_all_steps goes round again, or its last tick is done
EndStep ==
    /\ pc \in {"run_step", "run_all_steps"}
    /\ cursor > Len(individuals)
    /\ current_step' = current_step + 1
    /\ tick_log' = <<>>
    /\ IF pc = "run_step"
       THEN pc' = "idle" /\ cursor' = 0 /\ UNCHANGED ticks_left
       ELSE /\ ticks_left' = ticks_left - 1
            /\ pc' = IF ticks_left > 1 THEN "run_all_steps" ELSE "selection"
            /\ cursor' = IF ticks_left > 1 THEN 1 ELSE 0
    /\ UNCHANGED <<cfg, grid, individuals, generation, kill_count, history>>
    /\ UNCHANGED <<geneVars, crossVars, brainVars, feedVars, selVars, reproVars,
                   spawnVars, mutVars, guiVars>>

\* the rest of run_one_generation: apply_selection, the stats record appended
\* to history, reproduce, generation += 1, spawn_generation(child_genomes)
FinishGeneration ==
    /\ pc = "selection"
    /\ LET survivors == apply_selection(cfg, individuals)
       IN  /\ history' = Append(history, Stats(cfg, generation, kill_count, survivors))
           /\ \E genomes \in reproduce(cfg, survivors) :
                \E placed \in PlaceAll(GridClear(grid), <<>>, genomes, 1) :
                    /\ grid' = placed.grid
                    /\ individuals' = placed.individuals
    /\ generation' = generation + 1
    /\ current_step' = 0
    /\ kill_count' = 0
    /\ pc' = "idle"
    /\ UNCHANGED <<cfg, cursor, ticks_left, tick_log>>
    /\ UNCHANGED <<geneVars, crossVars, brainVars, feedVars, selVars, reproVars,
                   spawnVars, mutVars, guiVars>>

Next ==
    \/ AddBarrier
    \/ SpawnGeneration
    \/ RunStepCall
    \/ RunOneGenerationCall
    \/ TakeStep
    \/ TakeStepRaises
    \/ EndStep
    \/ FinishGeneration

Spec == Init /\ [][Next]_vars

-----------------------------------------------------------------------------
(* SpecDrive: one agent wired LOC_X -> MOVE_X in a 10 by 10 world, five      *)
(* ticks to the generation                                                   *)

\* Simulation(10, 10, population_size=1, genome_length=1,
\*            num_internal_neurons=3, steps_per_gen=5, mutation_rate=0)
DriveConfig == Config(10, 10, 1, 1, 3, 5, 0, RIGHT_HALF)

\* the genomes given to spawn_generation: the one gene
\* Sensor(LOC_X) -> Action(MOVE_X), with weight +4.0 or with weight 0
DriveGenomes ==
    { <<Gene(1, LOC_X, 1, MOVE_X, CodeMax * WRes)>>,
      <<Gene(1, LOC_X, 1, MOVE_X, 0)>> }

DriveInit ==
    /\ cfg = DriveConfig
    /\ grid = Grid(cfg.world_width, cfg.world_height)
    /\ individuals = <<>>
    /\ generation = 0
    /\ current_step = 0
    /\ kill_count = 0
    /\ history = <<>>
    /\ pc = "new"
    /\ cursor = 0
    /\ ticks_left = 0
    /\ tick_log = <<>>

\* sim.spawn_generation([genome]): the agent lands on any free cell
DriveSpawn ==
    /\ pc = "new"
    /\ \E genome \in DriveGenomes :
         \E placed \in PlaceAll(GridClear(grid), <<>>, <<genome>>, 1) :
            /\ grid' = placed.grid
            /\ individuals' = placed.individuals
    /\ current_step' = 0
    /\ kill_count' = 0
    /\ pc' = "idle"
    /\ UNCHANGED <<cfg, generation, history, cursor, ticks_left, tick_log>>
    /\ UNCHANGED <<geneVars, crossVars, brainVars, feedVars, selVars, reproVars,
                   spawnVars, mutVars, guiVars>>

\* sim.run_one_generation() on the freshly spawned generation
DriveRunOneGeneration ==
    /\ pc = "idle"
    /\ generation < MaxGen
    /\ pc' = "run_all_steps"
    /\ ticks_left' = cfg.steps_per_gen
    /\ cursor' = 1
    /\ tick_log' = <<>>
    /\ UNCHANGED <<cfg, grid, individuals, generation, current_step, kill_count,
                   history>>
    /\ UNCHANGED <<geneVars, crossVars, brainVars, feedVars, selVars, reproVars,
                   spawnVars, mutVars, guiVars>>

DriveNext ==
    \/ DriveSpawn
    \/ DriveRunOneGeneration
    \/ TakeStep
    \/ EndStep
    \/ FinishGeneration

InitDrive ==
    DriveInit /\ GeneIdle /\ CrossIdle /\ BrainIdle /\ FeedIdle /\ SelIdle /\ ReproIdle /\ SpawnIdle
        /\ MutIdle /\ GuiIdle

SpecDrive == InitDrive /\ [][DriveNext]_vars

-----------------------------------------------------------------------------
(* SpecLive: the engine with the placement loop of spawn_generation followed *)
(* draw by draw.  pc = "spawning" while spawn_generation is inside its loop. *)

\* the engines explored: one with room to spare, one that fills the 2 by 2
\* world exactly, one with more individuals than cells, one a single column;
\* their genomes have no gene and CORNERS lets nobody survive in so small a
\* world, so every generation is spawned from random genomes of no gene
LiveConfigs ==
    { Config(2, 2, 2, 0, 4, 1, 0, CORNERS),
      Config(2, 2, 4, 0, 4, 1, 0, CORNERS),
      Config(2, 1, 3, 0, 4, 1, 0, CORNERS),
      Config(1, 2, 1, 0, 4, 1, 0, CORNERS) }

\* a variant of the test of _random_empty_location that forgets the barriers
accepts_ignoring_barriers(gr, c) ==
    in_bounds(gr, c[1], c[2]) /\ ~is_occupied(gr, c[1], c[2])

\* the test _random_empty_location makes on the cell it drew
accepts(gr, c) ==
    in_bounds(gr, c[1], c[2]) /\ ~is_occupied(gr, c[1], c[2]) /\ ~is_barrier(gr, c[1], c[2])

LiveInit ==
    /\ cfg \in LiveConfigs
    /\ grid = Grid(cfg.world_width, cfg.world_height)
    /\ individuals = <<>>
    /\ generation = 0
    /\ current_step = 0
    /\ kill_count = 0
    /\ history = <<>>
    /\ pc = "new"
    /\ cursor = 0
    /\ ticks_left = 0
    /\ tick_log = <<>>
    /\ sp_genomes = <<>>
    /\ sp_draw = NoCell

\* sim.grid.add_barrier(x, y) on the new engine; nothing checks the room left
LiveAddBarrier ==
    /\ pc = "new"
    /\ \E site \in BarrierSites \ grid.barriers :
        /\ in_bounds(grid, site[1], site[2])
        /\ grid' = GridAddBarrier(grid, site[1], site[2])
    /\ UNCHANGED <<cfg, individuals, generation, current_step, kill_count,
                   history, pc, cursor, ticks_left, tick_log>>
    /\ UNCHANGED <<geneVars, crossVars, brainVars, feedVars, selVars, reproVars,
                   spawnVars, mutVars, guiVars>>

\* spawn_generation up to its placement loop: grid cleared, population and
\* counters reset, the genomes to place fixed
EnterSpawn(genomes) ==
    /\ grid' = GridClear(grid)
    /\ individuals' = <<>>
    /\ current_step' = 0
    /\ kill_count' = 0
    /\ sp_genomes' = genomes
    /\ sp_draw' = NoCell
    /\ pc' = IF genomes = <<>> THEN "idle" ELSE "spawning"

\* sim.spawn_generation(): the random genomes are made, the loop begins
LiveSpawnCall ==
    /\ pc = "new"
    /\ \E genomes \in [1..cfg.population_size -> GenomeRandom(cfg.genome_length)] :
         EnterSpawn(genomes)
    /\ UNCHANGED <<cfg, generation, history, cursor, ticks_left, tick_log>>
    /\ UNCHANGED <<geneVars, crossVars, brainVars, feedVars, selVars, reproVars, mutVars, guiVars>>

\* one pass of the loop of _random_empty_location draws the cell c: if the
\* cell passes the test it is returned, the Individual is made there and
\* registered in the grid (and spawn_generation returns after the last one),
\* otherwise the loop goes round again
LiveDrawCell(c) ==
    /\ pc = "spawning"
    /\ c \in Cells(cfg.world_width, cfg.world_height)
    /\ IF accepts(grid, c)
       THEN /\ grid' = GridSet(grid, c[1], c[2], Len(individuals))
            /\ individuals' = Append(individuals, Individual(Head(sp_genomes), c[1], c[2]))
            /\ sp_genomes' = Tail(sp_genomes)
            /\ sp_draw' = IF Len(sp_genomes) = 1 THEN NoCell ELSE c
            /\ pc' = IF Len(sp_genomes) = 1 THEN "idle" ELSE "spawning"
       ELSE /\ sp_draw' = c
            /\ UNCHANGED <<grid, individuals, sp_genomes, pc>>
    /\ UNCHANGED <<cfg, generation, current_step, kill_count, history, cursor,
                   ticks_left, tick_log>>
    /\ UNCHANGED <<geneVars, crossVars, brainVars, feedVars, selVars, reproVars, mutVars, guiVars>>

\* random.randint(0, world_width - 1), random.randint(0, world_height - 1)
LiveDraw ==
    \E c \in Cells(cfg.world_width, cfg.world_height) : LiveDrawCell(c)

\* the rest of run_one_generation up to the placement loop of its
\* spawn_generation(child_genomes)
LiveFinishGeneration ==
    /\ pc = "selection"
    /\ LET survivors == apply_selection(cfg, individuals)
       IN  /\ history' = Append(history, Stats(cfg, generation, kill_count, survivors))
           /\ \E genomes \in reproduce(cfg, survivors) : EnterSpawn(genomes)
    /\ generation' = generation + 1
    /\ UNCHANGED <<cfg, cursor, ticks_left, tick_log>>
    /\ UNCHANGED <<geneVars, crossVars, brainVars, feedVars, selVars, reproVars, mutVars, guiVars>>

LiveNext ==
    \/ LiveAddBarrier
    \/ LiveSpawnCall
    \/ LiveDraw
    \/ RunStepCall
    \/ RunOneGenerationCall
    \/ TakeStep
    \/ TakeStepRaises
    \/ EndStep
    \/ LiveFinishGeneration

InitLive ==
    LiveInit /\ GeneIdle /\ CrossIdle /\ BrainIdle /\ FeedIdle /\ SelIdle /\ ReproIdle
        /\ MutIdle /\ GuiIdle

\* the random draws are fair: every cell is drawn again and again
LiveFairness ==
    \A c \in Cells(2, 2) : WF_vars(LiveDrawCell(c))

SpecLive == InitLive /\ [][LiveNext]_vars /\ LiveFairness

-----------------------------------------------------------------------------
(* SpecMove: one agent whose move actions can fire together, in a 3 by 3     *)
(* world with a barrier, three ticks to the generation                       *)

\* Simulation(3, 3, population_size=1, genome_length=1,
\*            num_internal_neurons=4, steps_per_gen=3, mutation_rate=0)
MoveConfig == Config(3, 3, 1, 1, 4, 3, 0, RIGHT_HALF)

\* a gene Sensor(OSCILLATOR) -> Action(sink_id); the oscillator reads above
\* 0 at every tick, so the action's output has the sign of the weight
Driven(sink_id, weight) == Gene(1, OSCILLATOR, 1, sink_id, weight)

\* the genomes given to spawn_generation: MOVE_X and MOVE_FORWARD pushing
\* the same way with responsiveness driven up, and MOVE_X, MOVE_Y and
\* MOVE_RANDOM together with responsiveness driven down
MoveGenomes ==
    { <<Driven(MOVE_X, CodeMax * WRes), Driven(MOVE_FORWARD, CodeMax * WRes),
        Driven(SET_RESPONSIVENESS, CodeMax * WRes)>>,
      <<Driven(MOVE_X, -CodeMax * WRes), Driven(MOVE_Y, CodeMax * WRes),
        Driven(MOVE_RANDOM, CodeMax * WRes),
        Driven(SET_RESPONSIVENESS, -CodeMax * WRes)>> }

MoveInit ==
    /\ cfg = MoveConfig
    /\ grid = GridAddBarrier(Grid(cfg.world_width, cfg.world_height), 1, 1)
    /\ individuals = <<>>
    /\ generation = 0
    /\ current_step = 0
    /\ kill_count = 0
    /\ history = <<>>
    /\ pc = "new"
    /\ cursor = 0
    /\ ticks_left = 0
    /\ tick_log = <<>>

\* sim.spawn_generation([genome]): the agent lands on any free cell
MoveSpawn ==
    /\ pc = "new"
    /\ \E genome \in MoveGenomes :
         \E placed \in PlaceAll(GridClear(grid), <<>>, <<genome>>, 1) :
            /\ grid' = placed.grid
            /\ individuals' = placed.individuals
    /\ current_step' = 0
    /\ kill_count' = 0
    /\ pc' = "idle"
    /\ UNCHANGED <<cfg, generation, history, cursor, ticks_left, tick_log>>
    /\ UNCHANGED <<geneVars, crossVars, brainVars, feedVars, selVars, reproVars,
                   spawnVars, mutVars, guiVars>>

MoveNext ==
    \/ MoveSpawn
    \/ DriveRunOneGeneration
    \/ TakeStep
    \/ EndStep
    \/ FinishGeneration

InitMove ==
    MoveInit /\ GeneIdle /\ CrossIdle /\ BrainIdle /\ FeedIdle /\ SelIdle /\ ReproIdle /\ SpawnIdle
        /\ MutIdle /\ GuiIdle

SpecMove == InitMove /\ [][MoveNext]_vars

-----------------------------------------------------------------------------
(* SpecMutate: Genome.mutate called on a genome, its three stages recorded *)

\* the lengths of the genomes mutated: the shortest ones and the ones at
\* the cap of 50 genes
MutateLens == (1..MaxShortLen) \cup {MaxGenes - 1, MaxGenes}

\* the mutation rates: 0, about 0.01 and 0.5
MutateRates == {0, 10, One \div 2}

\* how many point mutations of one call are followed: none in the long
\* genomes, whose length is what matters
PointBudget(genes) == IF Len(genes) > MaxShortLen THEN 0 ELSE MaxPointFlips

MutateInit ==
    /\ \E n \in MutateLens : mu_genes = ParentA(n)
    /\ mu_rate \in MutateRates
    /\ mu_pointed = mu_genes
    /\ mu_deleted = mu_genes
    /\ mu_after = mu_genes
    /\ mu_op = "init"

\* genome.mutate(mutation_rate): point mutations, then the deletion, then
\* the insertion
MutateCall ==
    /\ mu_op = "init"
    /\ \E g1 \in PointMutate(mu_genes, 1, mu_rate, PointBudget(mu_genes)) :
         \E g2 \in Deletion(g1, mu_rate) :
            \E g3 \in Insertion(g2, mu_rate) :
                /\ mu_pointed' = g1
                /\ mu_deleted' = g2
                /\ mu_after' = g3
    /\ mu_op' = "mutated"
    /\ UNCHANGED <<mu_genes, mu_rate>>
    /\ UNCHANGED <<geneVars, crossVars, brainVars, simVars, feedVars, selVars,
                   reproVars, spawnVars, guiVars>>

MutateNext == MutateCall

InitMutate ==
    MutateInit /\ GeneIdle /\ CrossIdle /\ BrainIdle /\ SimIdle /\ FeedIdle /\ SelIdle /\ ReproIdle
        /\ SpawnIdle /\ GuiIdle

SpecMutate == InitMutate /\ [][MutateNext]_vars

-----------------------------------------------------------------------------
(* SpecGui: the engine driven by the main loop of main.py, in the window's   *)
(* 128 by 128 world.  The sliders are set one handler call at a time; the    *)
(* random draws of spawning and reproduction are followed through the few    *)
(* values named below.                                                       *)

\* the sliders and the dropdown as main() creates them: Population 500,
\* Genome Length 24, Internal Neurons 3, Steps/Gen 300, Mutation Rate 0.01,
\* Right Quarter, in the 128 by 128 world of create_sim
GuiDefaults == Config(128, 128, 500, 24, 3, 300, 10, RIGHT_QUARTER)

\* the values one call of Slider.handle_event or Dropdown.handle_event is
\* taken to leave: the low end of each slider or the value it was created
\* with (0.001 or 0.01 for the mutation rate), Right Half or Right Quarter
SliderValues ==
    [population_size |-> {50, 500},
     genome_length |-> {4, 24},
     num_internal_neurons |-> {1, 3},
     steps_per_gen |-> {50, 300},
     mutation_rate |-> {1, 10},
     selection |-> {RIGHT_HALF, RIGHT_QUARTER}]

\* the values max(1, int(sliders[5].value)) is followed through, the passes
\* of one frame
StepsPerFrame == 1..MaxFrameSteps

\* the genes Gene.random() is taken to return for the individuals of the
\* window: neuron 0 -> neuron 1 and neuron 1 -> neuron 0, which leave every
\* action output at 0.0
GuiGenePool ==
    { Gene(0, 0, 0, 1, CodeMax * WRes),
      Gene(0, 1, 0, 0, -WRes) }

\* the lists of num random genomes followed: every individual draws the same
\* genes, neuron 0 -> neuron 1 first and neuron 1 -> neuron 0 after it
GuiRandomGenomes(num, num_genes) ==
    { [k \in 1..num |->
          [j \in 1..num_genes |->
              IF j = 1 THEN Gene(0, 0, 0, 1, CodeMax * WRes) ELSE Gene(0, 1, 0, 0, -WRes)]] }

\* the columns the cells returned by _random_empty_location are taken from
GuiColumns == {0, 127}

\* the cells num calls of _random_empty_location are taken to return: from
\* the left or the right border inwards, each column filled from row 0 up
GuiPlacements(num) ==
    { [k \in 1..num |-> <<IF x = 0 THEN (k - 1) \div 128 ELSE x - (k - 1) \div 128,
                          (k - 1) % 128>>]
      : x \in GuiColumns }

\* the placement loop of spawn_generation, the cells _random_empty_location
\* returns being given: a new Individual on each, in genome order, and in the
\* grid the index of the last individual placed on a cell
PlaceAt(g, genomes, drawn) ==
    LET num == Len(genomes)
        placed_on == [c \in {drawn[k] : k \in 1..num} |->
                        LET ks == {k \in 1..num : drawn[k] = c}
                        IN  CHOOSE k \in ks : \A j \in ks : j <= k]
    IN  [grid |-> [g EXCEPT !.data =
                      [x \in 0..(g.width - 1) |-> [y \in 0..(g.height - 1) |->
                          IF <<x, y>> \in DOMAIN placed_on
                          THEN GridSet(g, x, y, placed_on[<<x, y>>] - 1).data[x][y]
                          ELSE g.data[x][y]]]],
         individuals |-> [k \in 1..num |->
                            Individual(genomes[k], drawn[k][1], drawn[k][2])]]

\* the cut points of Genome.crossover followed: both parents cut in the
\* middle, or the whole of parent_a and nothing of parent_b
GuiCuts(parent_a, parent_b) ==
    {<<Len(parent_a) \div 2, Len(parent_b) \div 2>>, <<Len(parent_a), Len(parent_b)>>}

\* the outcomes of Genome.mutate followed: no draw succeeds, or the first
\* gene alone is point-mutated
GuiMutate(genes, mutation_rate) ==
    (IF FALSE \in ChanceOutcomes(mutation_rate, One) THEN {genes} ELSE {})
    \cup
    (IF TRUE \in ChanceOutcomes(mutation_rate, One) /\ Len(genes) > 0
     THEN {[genes EXCEPT ![1] = mutate(@, bit)] : bit \in PointBits}
     ELSE {})

\* the child genomes reproduce is followed through: with two survivors or
\* more, every child is crossed from the first two survivors at the same cut
\* points and mutated the same way
GuiChildGenomes(c, survivors) ==
    IF Len(survivors) = 0
    THEN GuiRandomGenomes(c.population_size, c.genome_length)
    ELSE IF Len(survivors) = 1
    THEN { [k \in 1..c.population_size |-> child]
           : child \in GuiMutate(survivors[1].genome, c.mutation_rate) }
    ELSE UNION {UNION {
            { [k \in 1..c.population_size |-> child]
              : child \in GuiMutate(crossover(survivors[1].genome, survivors[2].genome,
                                              cut[1], cut[2], rnd), c.mutation_rate) }
            : rnd \in GuiGenePool}
            : cut \in GuiCuts(survivors[1].genome, survivors[2].genome)}

RECURSIVE run_step(_, _, _, _)
\* the loop of Simulation.run_step from the individual k on, as one call:
\* each individual takes its step against the grid the earlier ones left
\* (sim holds the individuals and the grid)
run_step(sim, k, step, steps_per_gen) ==
    IF k > Len(sim.individuals) THEN {sim}
    ELSE UNION {run_step(after, k + 1, step, steps_per_gen)
                : after \in {[individuals |-> [sim.individuals EXCEPT ![k] = o.self],
                              grid |-> o.grid]
                             : o \in take_step(sim.individuals[k], sim.grid, step,
                                               steps_per_gen)}}

\* the stats record of advance_generation; avg_genes is the driver's
\* variable, assigned only when there are survivors
GuiStats(c, gen, kills, survivors, avg_genes) ==
    [generation |-> gen,
     survivors |-> Len(survivors),
     survival_rate |-> (Len(survivors) * One) \div c.population_size,
     kill_count |-> kills,
     avg_genome_length |->
        IF Len(survivors) # 0
        THEN (SumLen(survivors, 1) * One) \div Len(survivors)
        ELSE avg_genes]

\* main() before Start is clicked: sim is None (pc = "new", the engine's
\* variables hold an empty world), the sliders are as created
GuiInit ==
    /\ cfg = GuiDefaults
    /\ grid = Grid(cfg.world_width, cfg.world_height)
    /\ individuals = <<>>
    /\ generation = 0
    /\ current_step = 0
    /\ kill_count = 0
    /\ history = <<>>
    /\ pc = "new"
    /\ cursor = 0
    /\ ticks_left = 0
    /\ tick_log = <<>>
    /\ gui_running = FALSE
    /\ gui_paused = FALSE
    /\ gui_phase = "idle"
    /\ gui_avg_genes = 0
    /\ gui_iter = 0
    /\ gui_settings = GuiDefaults
    /\ gui_moves = 0

\* one call of Slider.handle_event or Dropdown.handle_event that changes a
\* value: between two frames the user sets one slider, or picks an option of
\* the dropdown; no engine is touched
GuiSetSlider ==
    /\ pc \in {"new", "idle"}
    /\ gui_iter = 0
    /\ gui_moves < MaxSliderMoves
    /\ \E field \in DOMAIN SliderValues :
         \E value \in SliderValues[field] \ {gui_settings[field]} :
            gui_settings' = [gui_settings EXCEPT ![field] = value]
    /\ gui_moves' = gui_moves + 1
    /\ UNCHANGED <<gui_running, gui_paused, gui_phase, gui_avg_genes, gui_iter>>
    /\ UNCHANGED simVars
    /\ UNCHANGED <<geneVars, crossVars, brainVars, feedVars, selVars, reproVars,
                   spawnVars, mutVars>>

\* Start clicked while not running: create_sim() builds the engine from the
\* sliders and the dropdown as they are (its grid is empty), spawns the first
\* generation and sets avg_genes to the genome length slider
GuiStart ==
    /\ pc = "new"
    /\ ~gui_running
    /\ cfg' = gui_settings
    /\ \E genomes \in GuiRandomGenomes(gui_settings.population_size, gui_settings.genome_length) :
         \E drawn \in GuiPlacements(gui_settings.population_size) :
            LET placed == PlaceAt(GridClear(grid), genomes, drawn)
            IN  /\ grid' = placed.grid
                /\ individuals' = placed.individuals
    /\ generation' = 0
    /\ current_step' = 0
    /\ kill_count' = 0
    /\ history' = <<>>
    /\ pc' = "idle"
    /\ gui_running' = TRUE
    /\ gui_paused' = FALSE
    /\ gui_phase' = "stepping"
    /\ gui_avg_genes' = gui_settings.genome_length * One
    /\ UNCHANGED <<cursor, ticks_left, tick_log, gui_iter, gui_settings, gui_moves>>
    /\ UNCHANGED <<geneVars, crossVars, brainVars, feedVars, selVars, reproVars,
                   spawnVars, mutVars>>

\* Pause clicked while running, or Start clicked while running (resume)
GuiPauseOrResume ==
    /\ pc = "idle"
    /\ gui_iter = 0
    /\ gui_running
    /\ gui_paused' \in {~gui_paused, FALSE}
    /\ gui_paused' # gui_paused
    /\ UNCHANGED <<gui_running, gui_phase, gui_avg_genes, gui_iter, gui_settings,
                   gui_moves>>
    /\ UNCHANGED simVars
    /\ UNCHANGED <<geneVars, crossVars, brainVars, feedVars, selVars, reproVars,
                   spawnVars, mutVars>>

\* Reset clicked: sim = None (avg_genes keeps its value)
GuiReset ==
    /\ pc = "idle"
    /\ gui_iter = 0
    /\ gui_running
    /\ gui_running' = FALSE
    /\ gui_paused' = FALSE
    /\ gui_phase' = "idle"
    /\ grid' = GridClear(grid)
    /\ individuals' = <<>>
    /\ generation' = 0
    /\ current_step' = 0
    /\ kill_count' = 0
    /\ history' = <<>>
    /\ pc' = "new"
    /\ UNCHANGED <<cfg, cursor, ticks_left, tick_log, gui_avg_genes, gui_iter,
                   gui_settings, gui_moves>>
    /\ UNCHANGED <<geneVars, crossVars, brainVars, feedVars, selVars, reproVars,
                   spawnVars, mutVars>>

\* a frame whose stepping block runs: running, not paused, stepping
GuiFrame ==
    /\ pc = "idle"
    /\ gui_iter = 0
    /\ gui_running /\ ~gui_paused /\ gui_phase = "stepping"
    /\ generation < MaxGen
    /\ cfg.population_size <= MaxFramePopulation
    /\ cfg.steps_per_gen <= MaxFrameTicks
    /\ gui_iter' \in StepsPerFrame
    /\ UNCHANGED <<gui_running, gui_paused, gui_phase, gui_avg_genes, gui_settings,
                   gui_moves>>
    /\ UNCHANGED simVars
    /\ UNCHANGED <<geneVars, crossVars, brainVars, feedVars, selVars, reproVars,
                   spawnVars, mutVars>>

\* a pass of the stepping loop with current_step < steps_per_gen: the whole
\* of sim.run_step(), every individual in list order, then current_step += 1
GuiRunStep ==
    /\ pc = "idle"
    /\ gui_iter > 0
    /\ current_step < cfg.steps_per_gen
    /\ \E after \in run_step([individuals |-> individuals, grid |-> grid], 1,
                               current_step, cfg.steps_per_gen) :
        /\ individuals' = after.individuals
        /\ grid' = after.grid
    /\ current_step' = current_step + 1
    /\ gui_iter' = gui_iter - 1
    /\ UNCHANGED <<cfg, generation, kill_count, history, pc, cursor, ticks_left,
                   tick_log>>
    /\ UNCHANGED <<gui_running, gui_paused, gui_phase, gui_avg_genes, gui_settings,
                   gui_moves>>
    /\ UNCHANGED <<geneVars, crossVars, brainVars, feedVars, selVars, reproVars,
                   spawnVars, mutVars>>

\* a pass of the stepping loop with current_step >= steps_per_gen:
\* advance_generation(), then break
GuiAdvanceGeneration ==
    /\ pc = "idle"
    /\ gui_iter > 0
    /\ current_step >= cfg.steps_per_gen
    /\ LET survivors == apply_selection(cfg, individuals)
           avg_genes == IF Len(survivors) # 0
                        THEN (SumLen(survivors, 1) * One) \div Len(survivors)
                        ELSE gui_avg_genes
       IN  /\ gui_avg_genes' = avg_genes
           /\ history' = Append(history, GuiStats(cfg, generation, kill_count,
                                                  survivors, gui_avg_genes))
           /\ \E genomes \in GuiChildGenomes(cfg, survivors) :
                \E drawn \in GuiPlacements(cfg.population_size) :
                    LET placed == PlaceAt(GridClear(grid), genomes, drawn)
                    IN  /\ grid' = placed.grid
                        /\ individuals' = placed.individuals
    /\ generation' = generation + 1
    /\ current_step' = 0
    /\ kill_count' = 0
    /\ gui_phase' = "stepping"
    /\ gui_iter' = 0
    /\ UNCHANGED <<cfg, pc, cursor, ticks_left, tick_log, gui_running, gui_paused,
                   gui_settings, gui_moves>>
    /\ UNCHANGED <<geneVars, crossVars, brainVars, feedVars, selVars, reproVars,
                   spawnVars, mutVars>>

GuiNext ==
    \/ GuiSetSlider
    \/ GuiStart
    \/ GuiPauseOrResume
    \/ GuiReset
    \/ GuiFrame
    \/ GuiRunStep
    \/ GuiAdvanceGeneration

InitGui ==
    GuiInit /\ GeneIdle /\ CrossIdle /\ BrainIdle /\ FeedIdle /\ SelIdle /\ ReproIdle
        /\ SpawnIdle /\ MutIdle

SpecGui == InitGui /\ [][GuiNext]_vars

-----------------------------------------------------------------------------
(* Reading a packed word by its bit positions *)

RECURSIVE FieldOf(_, _, _)
\* the unsigned value of the n bits of p that start at bit position low
FieldOf(p, low, n) ==
    IF n = 0 THEN 0 ELSE WordBit(p, low) + 2 * FieldOf(p, low + 1, n - 1)

\* bits 15..0 of p read as a two's-complement 16-bit integer
SignedLow16(p) == FieldOf(p, 0, 15) - 32768 * WordBit(p, 15)

\* the kinds and ids sit at their wire positions
FieldsAtWirePositions(p, g) ==
    /\ WordBit(p, 31) = g.source_type
    /\ FieldOf(p, 24, 7) = g.source_id
    /\ WordBit(p, 23) = g.sink_type
    /\ FieldOf(p, 16, 7) = g.sink_id

\* round(weight / 4.0 * 32767): the nearest code, a half rounding away from zero
RoundedCode(weight) ==
    IF weight >= 0 THEN (2 * weight + WRes) \div (2 * WRes)
                   ELSE -((-2 * weight + WRes) \div (2 * WRes))

\* c is weight / 4.0 * 32767 with its fractional part dropped, then clamped
IsTruncatedClampedCode(c, weight) ==
    IF weight >= CodeMax * WRes THEN c = CodeMax
    ELSE IF weight <= CodeMin * WRes THEN c = CodeMin
    ELSE /\ Abs(c * WRes) <= Abs(weight)
         /\ Abs(weight - c * WRes) < WRes
         /\ (c > 0 => weight > 0) /\ (c < 0 => weight < 0)

-----------------------------------------------------------------------------
(* Claims about Gene, checked under SpecGene *)

\* C5: for a gene with kinds in {0,1}, ids in [0,127] and weight in [-4,4],
\* from_int(to_int(gene)) has the same kinds and ids and a weight within
\* 4.0/32767 (WRes sub-steps) of the original.
C5_RoundTrip ==
    (gop = "roundtrip" /\ WeightInRange(gprev.weight)
       /\ gprev.source_id \in 0..127 /\ gprev.sink_id \in 0..127)
    => /\ gene.source_type = gprev.source_type
       /\ gene.source_id = gprev.source_id
       /\ gene.sink_type = gprev.sink_type
       /\ gene.sink_id = gprev.sink_id
       /\ Abs(gene.weight - gprev.weight) <= WRes

\* a round trip of a negative in-range weight that lost its fractional part
C5_Witness ==
    /\ gop = "roundtrip"
    /\ WeightInRange(gprev.weight)
    /\ gprev.weight < 0
    /\ gene.weight # gprev.weight
    /\ gprev.source_id = 127

\* C6 as stated: to_int lays the fields out at the wire positions and the low
\* 16 bits are the two's-complement code round(weight/4.0*32767), clamped.
C6_RoundedWireFormat ==
    gop = "to_int"
    => /\ FieldsAtWirePositions(gword, gene)
       /\ SignedLow16(gword) = Max(CodeMin, Min(CodeMax, RoundedCode(gene.weight)))

\* C6 amended: to_int lays the fields out at the wire positions and the low
\* 16 bits are the two's-complement code of weight/4.0*32767 truncated toward
\* zero (not rounded), clamped to [-32768, 32767], for every weight.
C6_TruncatedWireFormat ==
    gop = "to_int"
    => /\ FieldsAtWirePositions(gword, gene)
       /\ IsTruncatedClampedCode(SignedLow16(gword), gene.weight)

\* to_int of an in-range weight whose scaled value has a fraction of a half or more
C6_Witness ==
    /\ gop = "to_int"
    /\ WeightInRange(gene.weight)
    /\ 2 * (Abs(gene.weight) % WRes) >= WRes
    /\ gene.sink_id = 85

\* C7: for every word p, to_int of from_int(p) is p again.
C7_DecodeEncodeIdentity ==
    gop = "from_int" => to_int(gene) = gword

\* the word decoded had the weight code 0x8000 and every id bit set
C7_Witness ==
    /\ gop = "from_int"
    /\ gword.lo = 32768
    /\ gword.hi = 65535
    /\ gene.weight = CodeMin * WRes

\* C8: Gene.mutate with bit b changes the packed word in exactly bit b.
C8_MutateFlipsOneBit ==
    gop = "mutate" => XorBits(to_int(gene), to_int(gprev)) = {gbit}

\* a mutation of the source-kind bit of a gene whose weight is off the code grid
C8_Witness ==
    /\ gop = "mutate"
    /\ gbit = 31
    /\ gprev.weight % WRes # 0
    /\ gene.source_type # gprev.source_type

-----------------------------------------------------------------------------
(* Claims about Genome.crossover, checked under SpecCross *)

\* C4: the child's genes are, in order and field for field, the first 50 genes
\* of a[0:ca] followed by b[cb:], or one random gene when that is empty; so
\* the child has 1..50 genes and every gene of it is an unaltered parent gene.
C4_CrossoverRecombines ==
    xop = "crossover"
    => LET ca == xcut[1]
           cb == xcut[2]
           n == ca + (Len(xb) - cb)
       IN  /\ Len(xchild) \in 1..50
           /\ IF n = 0
              THEN xchild = <<xrnd>>
              ELSE /\ Len(xchild) = Min(n, 50)
                   /\ \A k \in 1..Len(xchild) :
                        xchild[k] = IF k <= ca THEN xa[k] ELSE xb[cb + (k - ca)]

\* a child cut down to 50 genes that is longer than either parent and holds
\* genes of both
C4_Witness ==
    /\ xop = "crossover"
    /\ Len(xchild) = 50
    /\ Len(xa) < 50 /\ Len(xb) < 50
    /\ xcut[1] + (Len(xb) - xcut[2]) > 50
    /\ xchild[1] = xa[1]
    /\ xchild[50].source_type = 0

-----------------------------------------------------------------------------
(* Claims about Brain construction, checked under SpecBrain *)

\* idx is raw folded into 0..count-1: in range and congruent to raw modulo count
FoldedInto(idx, raw, count) ==
    /\ idx \in 0..(count - 1)
    /\ \E q \in 0..127 : raw = q * count + idx

\* C9: the connection list has one entry per gene, in genome order; a sensor
\* source is folded modulo num_sensors, a neuron source or sink modulo
\* num_internal, an action sink modulo num_actions, so every index is in range.
C9_ConnectionsResolved ==
    bop = "built"
    => /\ Len(bbrain.connections) = Len(bgenome)
       /\ \A k \in 1..Len(bgenome) :
            LET g == bgenome[k]
                c == bbrain.connections[k]
            IN  /\ c.source_type = g.source_type
                /\ c.sink_type = g.sink_type
                /\ c.weight = g.weight
                /\ FoldedInto(c.source_id, g.source_id,
                              IF g.source_type = 1 THEN 12 ELSE 4)
                /\ FoldedInto(c.sink_id, g.sink_id,
                              IF g.sink_type = 1 THEN 5 ELSE 4)

\* a brain of three connections whose raw ids all lie beyond every count
C9_Witness ==
    /\ bop = "built"
    /\ Len(bbrain.connections) = 3
    /\ \A k \in 1..3 : bgenome[k].source_id > 12 /\ bgenome[k].sink_id > 12
    /\ \E k \in 1..3 : bgenome[k].source_type = 1 /\ bgenome[k].sink_type = 0

-----------------------------------------------------------------------------
(* Claims about the engine, checked under Spec *)

\* C1: the individuals and the grid agree as a bijection: every individual
\* stands on an in-bounds cell that is no barrier, no two share a cell,
\* grid.get at an individual's cell returns its population index, and no
\* other cell is occupied.
C1_GridBijection ==
    /\ \A k \in 1..Len(individuals) :
         LET indiv == individuals[k]
         IN  /\ in_bounds(grid, indiv.x, indiv.y)
             /\ ~is_barrier(grid, indiv.x, indiv.y)
             /\ GridGet(grid, indiv.x, indiv.y) = k - 1
    /\ \A k, l \in 1..Len(individuals) :
         k # l => <<individuals[k].x, individuals[k].y>>
                    # <<individuals[l].x, individuals[l].y>>
    /\ \A c \in Cells(grid.width, grid.height) :
         is_occupied(grid, c[1], c[2])
           => \E k \in 1..Len(individuals) :
                <<individuals[k].x, individuals[k].y>> = c

\* a population respawned by run_one_generation, on a grid with a barrier,
\* in which an individual has just moved
C1_Witness ==
    /\ generation = 1
    /\ Len(individuals) = 2
    /\ grid.barriers # {}
    /\ \E k \in 1..Len(tick_log) : tick_log[k].moved

\* the cell the k-th individual processed in this tick drew as its target
TargetOf(k) ==
    <<tick_log[k].from[1] + tick_log[k].move[1],
      tick_log[k].from[2] + tick_log[k].move[2]>>

\* the k-th individual processed in this tick drew a move other than (0, 0)
Attempted(k) == tick_log[k].move # <<0, 0>>

\* where the k-th individual stood when the tick began: an individual is
\* moved by its own step only
StartOf(k) ==
    IF k <= Len(tick_log) THEN tick_log[k].from
    ELSE <<individuals[k].x, individuals[k].y>>

\* the cell was in bounds and empty when the tick began
FreeAtTickStart(cell) ==
    /\ in_bounds(grid, cell[1], cell[2])
    /\ cell \notin grid.barriers
    /\ \A k \in 1..Len(individuals) : StartOf(k) # cell

\* C2: within a tick, when two individuals draw a move into the same cell
\* that was empty when the tick began, the first to be processed (the lowest
\* index) takes it and the later one stays put; and an individual never
\* moves into a cell that a later-processed individual leaves in that tick.
C2_FirstMoverWins ==
    \A i, j \in 1..Len(tick_log) :
        i < j =>
          /\ ( /\ Attempted(i) /\ Attempted(j)
               /\ TargetOf(i) = TargetOf(j)
               /\ FreeAtTickStart(TargetOf(i))
               /\ \A k \in 1..(i - 1) : ~(Attempted(k) /\ TargetOf(k) = TargetOf(i)) )
             => /\ tick_log[i].moved
                /\ ~tick_log[j].moved
                /\ <<individuals[i].x, individuals[i].y>> = TargetOf(i)
                /\ <<individuals[j].x, individuals[j].y>> = tick_log[j].from
          /\ (tick_log[i].moved /\ tick_log[j].moved)
             => TargetOf(i) # tick_log[j].from

\* two individuals drew the same empty cell in one tick: the first holds it,
\* the second stands where it stood
C2_Witness ==
    /\ Len(tick_log) = 2
    /\ Attempted(1) /\ Attempted(2)
    /\ TargetOf(1) = TargetOf(2)
    /\ FreeAtTickStart(TargetOf(1))
    /\ tick_log[1].moved /\ ~tick_log[2].moved

\* a later individual moved into the cell an earlier one left in the same tick
C2_VacatedCellTaken ==
    /\ Len(tick_log) = 2
    /\ tick_log[1].moved /\ tick_log[2].moved
    /\ TargetOf(2) = tick_log[1].from

\* C3: every genome held by an individual has between 1 and 50 genes, for
\* every genome_length and mutation_rate given to the engine.
C3_GenomeLengthClamped ==
    \A k \in 1..Len(individuals) : Len(individuals[k].genome) \in 1..50

\* C10: every individual's brain has exactly the num_internal_neurons
\* internal neurons given to the Simulation constructor.
C10_BrainUsesConfiguredNeurons ==
    \A k \in 1..Len(individuals) :
        /\ individuals[k].brain.num_internal = cfg.num_internal_neurons
        /\ DOMAIN individuals[k].brain.neuron_outputs
             = 0..(cfg.num_internal_neurons - 1)

-----------------------------------------------------------------------------
(* Claims about Brain.feed_forward, checked under SpecFeed *)

RECURSIVE SumSignals(_, _, _)
\* the sum, over the connections numbered in ks, of source value times
\* weight, a neuron source being read from the neuron outputs prev
SumSignals(ks, sensor_values, prev) ==
    IF ks = {} THEN Exact(0)
    ELSE LET k == CHOOSE j \in ks : TRUE
             c == fbrain.connections[k]
             v == IF c.source_type = 1 THEN sensor_values[c.source_id]
                  ELSE prev[c.source_id]
         IN  Summed(Signal(v, c.weight), SumSignals(ks \ {k}, sensor_values, prev))

\* the connections of fbrain that end in the given sink
InTo(sink_type, sink_id) ==
    {k \in 1..Len(fbrain.connections) :
        /\ fbrain.connections[k].sink_type = sink_type
        /\ fbrain.connections[k].sink_id = sink_id}

\* C11: feed_forward reads every neuron source from the neuron outputs the
\* previous call stored (0.0 before the first call), never from the values
\* of the call in progress: each action output and each newly stored neuron
\* output is tanh of the signals computed from this call's sensors and the
\* previous call's neuron outputs, so an action fed through a neuron only
\* shows nothing on the first call.
C11_OneTickDelay ==
    fcalls >= 1 =>
        /\ \A i \in 0..(NUM_ACTIONS - 1) :
             fout[i] = Tanh(SumSignals(InTo(1, i), fsens, fprev))
        /\ \A n \in 0..(NUM_INTERNAL - 1) :
             fbrain.neuron_outputs[n] = Tanh(SumSignals(InTo(0, n), fsens, fprev))
        /\ (fcalls = 1 =>
              /\ \A n \in 0..(NUM_INTERNAL - 1) : fprev[n] = Exact(0)
              /\ \A i \in 0..(NUM_ACTIONS - 1) :
                   (\A k \in InTo(1, i) : fbrain.connections[k].source_type = 0)
                     => fout[i] = Exact(0))

\* second call, every sensor at 0.0: MOVE_X is driven by what neuron 0 stored
\* during the first call, one tick after the sensor that caused it
C11_Witness ==
    /\ fcalls = 2
    /\ \A s \in 0..(NUM_SENSORS - 1) : fsens[s] = Exact(0)
    /\ fprev[0].lo > 0 \/ fprev[0].hi < 0
    /\ fout[MOVE_X].lo > 0 \/ fout[MOVE_X].hi < 0
    /\ fbrain.neuron_outputs[0] = Exact(0)

-----------------------------------------------------------------------------
(* Claims about the generation cycle, checked under Spec *)

\* the engine is about to finish a generation nobody survived
Extinction ==
    pc = "selection" /\ apply_selection(cfg, individuals) = <<>>

\* C12: whatever the number of survivors, the reproduce step of
\* run_one_generation hands spawn_generation exactly population_size genomes
\* and the run continues: the next population holds population_size
\* individuals and generation advances by one; after an extinction (zero
\* survivors) every genome is a newly drawn random genome of genome_length
\* genes, and none is a copy: each is drawn on its own, so that every list
\* of population_size random genomes can be the next population, whatever
\* the genomes of the population that died out and of the other children.
C12_ReproduceRefills ==
    /\ [][(pc = "selection" /\ pc' = "idle") =>
             /\ Len(individuals') = cfg.population_size
             /\ generation' = generation + 1
             /\ Len(history') = Len(history) + 1
             /\ history'[Len(history')].survivors
                  = Cardinality({k \in 1..Len(individuals) : survives(cfg, individuals[k])})
             /\ (history'[Len(history')].survivors = 0 =>
                   \A k \in 1..Len(individuals') :
                       /\ Len(individuals'[k].genome) = cfg.genome_length
                       /\ individuals'[k].genome \in GenomeRandom(cfg.genome_length))
          ]_vars
    /\ [](Extinction =>
            \A drawn \in [1..cfg.population_size -> GenomeRandom(cfg.genome_length)] :
                ENABLED (/\ FinishGeneration
                         /\ \A k \in 1..cfg.population_size :
                                individuals'[k].genome = drawn[k]))

\* a generation that ended in extinction has been replaced by a full
\* population of two whose genomes differ from each other
C12_Witness ==
    /\ pc = "idle"
    /\ generation = 1
    /\ history[1].survivors = 0
    /\ cfg.population_size = 2
    /\ Len(individuals) = 2
    /\ individuals[1].genome # individuals[2].genome

-----------------------------------------------------------------------------
(* Claims about reproduce and object identity, checked under SpecRepro *)

\* the Gene objects a genome refers to
ObjectsOf(genes) == {genes[j] : j \in 1..Len(genes)}

\* C13: reproduce never changes a survivor (each survivor's genome keeps its
\* length and every gene its fields), and no child genome shares a Gene
\* object with a survivor's genome or with another child, nor holds one
\* object twice; so a later mutation of a child's gene leaves the survivors
\* as they were.
C13_NoSharedGenes ==
    /\ Len(rsurv) = Len(rsnap)
    /\ \A s \in 1..Len(rsurv) :
         /\ Len(rsurv[s]) = Len(rsnap[s])
         /\ \A j \in 1..Len(rsurv[s]) : rheap[rsurv[s][j]] = rsnap[s][j]
    /\ \A k \in 1..Len(rchildren) :
         /\ \A s \in 1..Len(rsurv) : ObjectsOf(rchildren[k]) \cap ObjectsOf(rsurv[s]) = {}
         /\ \A l \in 1..Len(rchildren) :
              k # l => ObjectsOf(rchildren[k]) \cap ObjectsOf(rchildren[l]) = {}
         /\ Cardinality(ObjectsOf(rchildren[k])) = Len(rchildren[k])

\* two survivors, two children made by crossover, and a child's gene mutated
\* afterwards to fields no survivor's gene has
C13_Witness ==
    /\ rop = "mutated"
    /\ Len(rsurv) = 2
    /\ Len(rchildren) = 2
    /\ \E k \in 1..2 : \E j \in 1..Len(rchildren[k]) :
         \A s \in 1..2 : \A i \in 1..Len(rsurv[s]) :
             rheap[rchildren[k][j]] # rheap[rsurv[s][i]]

\* C14: run_one_generation runs exactly steps_per_gen ticks before selection
\* (its loop starts with steps_per_gen passes to make, each tick advances
\* current_step by one and uses one pass up, and selection begins when none
\* is left), then appends exactly one record to history whose generation
\* field is the generation the call began with, advances generation by
\* exactly one and ends with current_step = 0; no earlier record is ever
\* changed or removed, so len(history) = generation and the k-th record
\* (from 0) has generation k.
C14_GenerationCycle ==
    /\ [](/\ Len(history) = generation
          /\ \A k \in 1..Len(history) : history[k].generation = k - 1
          /\ (pc = "selection" => ticks_left = 0 /\ current_step >= cfg.steps_per_gen))
    /\ [][/\ (pc = "idle" /\ pc' = "run_all_steps")
               => (ticks_left' = cfg.steps_per_gen /\ current_step' = current_step)
          /\ (pc = "run_all_steps" /\ current_step' # current_step)
               => /\ current_step' = current_step + 1
                  /\ ticks_left' = ticks_left - 1
                  /\ (pc' = "selection") = (ticks_left' = 0)
          /\ (pc = "run_all_steps" /\ current_step' = current_step)
               => (pc' \in {"run_all_steps", "error"} /\ ticks_left' = ticks_left)
          /\ (pc = "selection" /\ pc' = "idle")
               => /\ generation' = generation + 1
                  /\ current_step' = 0
                  /\ Len(history') = Len(history) + 1
                  /\ history'[Len(history')].generation = generation
          /\ \A k \in 1..Len(history) :
               Len(history') >= k /\ history'[k] = history[k]
         ]_vars

\* two run_one_generation calls have returned: two records, the first one
\* still in place
C14_Witness ==
    /\ pc = "idle"
    /\ generation = 2
    /\ Len(history) = 2
    /\ history[1].generation = 0
    /\ current_step = 0

\* a generation of two ticks has been run and recorded
C14_TwoTickGeneration ==
    /\ pc = "idle"
    /\ cfg.steps_per_gen = 2
    /\ generation = 1
    /\ Len(history) = 1

\* C15: when spawn_generation returns, current_step = 0 and kill_count = 0;
\* every individual is newly built (alive, last_dx = last_dy = 0,
\* responsiveness 0.5, every neuron output 0.0, one connection per gene); the
\* grid holds exactly the new individuals, so the previous occupancy is
\* gone; the barriers are the same; and, for the call spawn_generation()
\* without genomes, there are population_size individuals with genome_length
\* genes each and generation and history are unchanged.
C15_SpawnResets ==
    [][(pc \in {"new", "idle", "selection"} /\ pc' = "idle") =>
         /\ current_step' = 0
         /\ kill_count' = 0
         /\ Len(individuals') = cfg.population_size
         /\ \A k \in 1..Len(individuals') :
              LET indiv == individuals'[k]
              IN  /\ indiv.alive
                  /\ indiv.last_dx = 0 /\ indiv.last_dy = 0
                  /\ indiv.responsiveness = Exact(One \div 2)
                  /\ \A n \in DOMAIN indiv.brain.neuron_outputs :
                       indiv.brain.neuron_outputs[n] = Exact(0)
                  /\ Len(indiv.brain.connections) = Len(indiv.genome)
                  /\ grid'.data[indiv.x][indiv.y] = k
         /\ Cardinality({c \in Cells(grid'.width, grid'.height) :
                            grid'.data[c[1]][c[2]] # 0}) = Len(individuals')
         /\ grid'.barriers = grid.barriers
         /\ (pc # "selection" =>
               /\ generation' = generation
               /\ history' = history
               /\ \A k \in 1..Len(individuals') :
                    Len(individuals'[k].genome) = cfg.genome_length)
      ]_vars

\* spawn_generation has just replaced a population of two on a grid with a
\* barrier, after a generation in which individuals were placed and moved
C15_Witness ==
    /\ pc = "idle"
    /\ current_step = 0
    /\ generation = 1
    /\ grid.barriers # {}
    /\ Len(individuals) = 2
    /\ history[1].survivors = 1

-----------------------------------------------------------------------------
(* Claims about selection, checked under SpecSelect *)

\* the selection predicates at (x, y) in a world w by h, as integer
\* comparisons: halves and quarters of the width are floor quotients, the
\* circle is the exact inequality multiplied through by 16
Satisfies(selection, w, h, x, y) ==
    CASE selection = RIGHT_HALF -> x >= w \div 2
      [] selection = LEFT_HALF -> x < w \div 2
      [] selection = CENTER_CIRCLE ->
           4 * (2 * x - w) * (2 * x - w) + 4 * (2 * y - h) * (2 * y - h)
             <= Min(w, h) * Min(w, h)
      [] selection = CORNERS ->
           /\ (x < w \div 4 \/ x >= w - w \div 4)
           /\ (y < h \div 4 \/ y >= h - h \div 4)
      [] selection = RIGHT_QUARTER -> x >= (3 * w) \div 4
      [] OTHER -> TRUE

\* the positions in sel_pop of the living individuals that satisfy the
\* active predicate
Passing ==
    {k \in 1..Len(sel_pop) :
        /\ sel_pop[k].alive
        /\ Satisfies(sel_cfg.selection, sel_cfg.world_width, sel_cfg.world_height,
                     sel_pop[k].x, sel_pop[k].y)}

\* the individual at position k of sel_pop is in the list returned
Survived(k) == \E i \in 1..Len(sel_survivors) : sel_survivors[i] = sel_pop[k]

\* C16: apply_selection returns exactly the living individuals whose (x, y)
\* satisfies the active predicate, in population order (all of them when the
\* selection value is none of the five criteria), and a call changes neither
\* the individuals nor the configuration, so a second call returns the same
\* list.
C16_SelectionExactAndPure ==
    /\ [](sel_calls >= 1 =>
            /\ Len(sel_survivors) = Cardinality(Passing)
            /\ \A i \in 1..Len(sel_survivors) :
                 sel_survivors[i] =
                   sel_pop[CHOOSE k \in Passing :
                             Cardinality({j \in Passing : j < k}) = i - 1]
            /\ (sel_cfg.selection = UnknownSelection => sel_survivors = sel_pop))
    /\ [][/\ sel_pop' = sel_pop
          /\ sel_cfg' = sel_cfg
          /\ (sel_calls >= 1 => sel_survivors' = sel_survivors)]_vars

\* the second call on a population of two of which only the second passes
C16_Witness ==
    /\ sel_calls = 2
    /\ Len(sel_pop) = 2
    /\ Passing = {2}
    /\ sel_survivors = <<sel_pop[2]>>

\* C17 as stated, with exact quotients: RIGHT_HALF is x >= width/2,
\* LEFT_HALF is x < width/2 and RIGHT_QUARTER is x >= 3*width/4, for every
\* width, even or odd.
C17_ExactQuotients ==
    sel_calls >= 1 =>
        \A k \in 1..Len(sel_pop) :
            LET w == sel_cfg.world_width
                x == sel_pop[k].x
            IN  /\ sel_cfg.selection = RIGHT_HALF => (Survived(k) <=> 2 * x >= w)
                /\ sel_cfg.selection = LEFT_HALF => (Survived(k) <=> 2 * x < w)
                /\ sel_cfg.selection = RIGHT_QUARTER => (Survived(k) <=> 4 * x >= 3 * w)

\* C17, amended: for every width and every x in [0, width), an individual
\* survives RIGHT_HALF exactly when x >= floor(width/2), LEFT_HALF exactly
\* when x < floor(width/2) and RIGHT_QUARTER exactly when
\* x >= floor(3*width/4).
C17_FloorQuotients ==
    sel_calls >= 1 =>
        \A k \in 1..Len(sel_pop) :
            LET w == sel_cfg.world_width
                x == sel_pop[k].x
            IN  /\ sel_cfg.selection = RIGHT_HALF => (Survived(k) <=> x >= w \div 2)
                /\ sel_cfg.selection = LEFT_HALF => (Survived(k) <=> x < w \div 2)
                /\ sel_cfg.selection = RIGHT_QUARTER
                     => (Survived(k) <=> x >= (3 * w) \div 4)

\* width 5: the individual at x = 2, left of the exact middle 2.5, survives
\* RIGHT_HALF
C17_Witness ==
    /\ sel_calls >= 1
    /\ sel_cfg.world_width = 5
    /\ sel_cfg.selection = RIGHT_HALF
    /\ Len(sel_pop) = 1
    /\ sel_pop[1].x = 2
    /\ sel_survivors = sel_pop

\* C18: CORNERS holds exactly when x is in the outer quarter of the width
\* (x < floor(w/4) or x >= w - floor(w/4)) and y in the outer quarter of the
\* height; CENTER_CIRCLE holds exactly when
\* (x - w/2)^2 + (y - h/2)^2 <= (min(w, h)/4)^2 with exact quotients; and in
\* the 8 by 8 world (6, 3) passes RIGHT_HALF and RIGHT_QUARTER but not
\* CORNERS, and (7, 7) passes RIGHT_HALF, RIGHT_QUARTER and CORNERS but not
\* CENTER_CIRCLE.
C18_CornersAndCircle ==
    sel_calls >= 1 =>
        \A k \in 1..Len(sel_pop) :
            LET w == sel_cfg.world_width
                h == sel_cfg.world_height
                x == sel_pop[k].x
                y == sel_pop[k].y
                m == IF w < h THEN w ELSE h
                sel == sel_cfg.selection
            IN  /\ sel = CORNERS =>
                     (Survived(k) <=>
                        /\ (x < w \div 4 \/ x >= w - w \div 4)
                        /\ (y < h \div 4 \/ y >= h - h \div 4))
                /\ sel = CENTER_CIRCLE =>
                     (Survived(k) <=>
                        4 * ((2 * x - w) * (2 * x - w) + (2 * y - h) * (2 * y - h))
                          <= m * m)
                /\ (w = 8 /\ h = 8 /\ x = 6 /\ y = 3) =>
                     /\ sel \in {RIGHT_HALF, RIGHT_QUARTER} => Survived(k)
                     /\ sel = CORNERS => ~Survived(k)
                /\ (w = 8 /\ h = 8 /\ x = 7 /\ y = 7) =>
                     /\ sel \in {RIGHT_HALF, RIGHT_QUARTER, CORNERS} => Survived(k)
                     /\ sel = CENTER_CIRCLE => ~Survived(k)

\* the odd world 5 by 3: (3, 1) lies inside the exact circle around
\* (2.5, 1.5) and survives CENTER_CIRCLE
C18_Witness ==
    /\ sel_calls >= 1
    /\ sel_cfg.world_width = 5 /\ sel_cfg.world_height = 3
    /\ sel_cfg.selection = CENTER_CIRCLE
    /\ Len(sel_pop) = 1
    /\ sel_pop[1].x = 3 /\ sel_pop[1].y = 1
    /\ sel_survivors = sel_pop

\* the 8 by 8 world under CORNERS: (7, 7) survives and (6, 3) does not
C18_EightByEight ==
    /\ sel_calls >= 1
    /\ sel_cfg.world_width = 8 /\ sel_cfg.world_height = 8
    /\ sel_cfg.selection = CORNERS
    /\ Len(sel_pop) = 2
    /\ sel_pop[1].x = 6 /\ sel_pop[1].y = 3
    /\ sel_pop[2].x = 7 /\ sel_pop[2].y = 7
    /\ sel_survivors = <<sel_pop[2]>>

-----------------------------------------------------------------------------
(* Claims about the LOC_X -> MOVE_X agent, checked under SpecDrive *)

\* the agent of the first generation is about to take its step, has not
\* moved yet and stands at x = 0 with the gene of weight +4.0
EdgeAgentAboutToStep ==
    /\ generation = 0
    /\ pc = "run_all_steps"
    /\ cursor = 1
    /\ Len(individuals) = 1
    /\ individuals[1].genome[1].weight > 0
    /\ individuals[1].x = 0
    /\ individuals[1].last_dx = 0 /\ individuals[1].last_dy = 0

\* C19 as stated: the agent of weight +4.0 that starts at x = 0 moves toward
\* increasing x (a step to a larger x is possible for it), no step ever
\* decreases x, and the agent of weight 0 never moves.
C19_EdgeAgentMovesRight ==
    /\ EdgeAgentAboutToStep =>
         ENABLED (TakeStep /\ individuals'[1].x > individuals[1].x)
    /\ generation = 0 =>
         \A k \in 1..Len(tick_log) :
             /\ tick_log[k].move[1] >= 0
             /\ individuals[k].genome[1].weight = 0 => ~tick_log[k].moved

\* C19, amended: in the first generation the agent of weight +4.0 never
\* draws a move while it stands at x = 0 (LOC_X reads 0.0 there, so MOVE_X
\* is tanh(0) = 0 and fires with probability 0), so started at x = 0 it
\* stays there for the five ticks; no move of any agent decreases x or
\* changes y; and the agent of weight 0 never draws a move at all.
C19_NeverLeavesEdge ==
    generation = 0 =>
        /\ \A k \in 1..Len(tick_log) :
             /\ tick_log[k].from[1] = 0 =>
                  (tick_log[k].move = <<0, 0>> /\ ~tick_log[k].moved)
             /\ individuals[k].genome[1].weight = 0 => tick_log[k].move = <<0, 0>>
             /\ tick_log[k].move \in {<<0, 0>>, <<1, 0>>}
        /\ \A k \in 1..Len(individuals) :
             /\ individuals[k].last_dx >= 0 /\ individuals[k].last_dy = 0
             /\ individuals[k].last_dx = 1 => individuals[k].x >= 2

\* the five ticks are over and the agent of weight +4.0 that started at
\* x = 0 still stands there: it has taken its five steps and never moved
C19_EdgeAgentStayed ==
    /\ generation = 0
    /\ pc = "selection"
    /\ current_step = 5
    /\ individuals[1].genome[1].weight > 0
    /\ individuals[1].x = 0
    /\ individuals[1].last_dx = 0

-----------------------------------------------------------------------------
(* Claims about error states, checked under Spec *)

\* the configuration satisfies the stated preconditions: width >= 1,
\* height >= 1, steps_per_gen >= 1 and 1 <= population_size <= free cells
ValidConfig ==
    /\ cfg.world_width >= 1
    /\ cfg.world_height >= 1
    /\ cfg.steps_per_gen >= 1
    /\ cfg.population_size >= 1
    /\ cfg.population_size <=
         cfg.world_width * cfg.world_height - Cardinality(grid.barriers)

\* C20: under a configuration with width >= 1, height >= 1,
\* steps_per_gen >= 1 and 1 <= population_size <= free cells, no operation
\* of the simulation ends in an error: no step raises.
C20_NoErrorState ==
    ValidConfig => pc # "error"

-----------------------------------------------------------------------------
(* Claims about termination, checked under SpecLive *)

\* the genomes spawn_generation was given are no more than the cells that
\* are not barriers
SpawnHasRoom ==
    Len(individuals) + Len(sp_genomes) <=
        cfg.world_width * cfg.world_height - Cardinality(grid.barriers)

\* how many passes the loops of run_step and run_all_steps have still to make
LoopPasses ==
    (IF pc = "run_all_steps" THEN ticks_left - 1 ELSE 0) * (Len(individuals) + 1)
        + (Len(individuals) + 1 - cursor)

InLoop == pc \in {"run_step", "run_all_steps"}

\* C21: when every cell is drawn again and again, spawn_generation returns
\* whenever its genomes are no more than the non-barrier cells, and never
\* returns when they are more; no other operation can loop forever: every
\* pass of the loops of run_step and run_all_steps leaves fewer passes to
\* make, and what follows the last tick of run_one_generation is one step
\* that ends in the placement loop of its spawn_generation.
C21_SpawnTerminatesIffRoom ==
    /\ (pc = "spawning" /\ SpawnHasRoom) ~> (pc = "idle")
    /\ [][(pc = "spawning" /\ ~SpawnHasRoom) => pc' = "spawning"]_vars
    /\ [][(InLoop /\ InLoop') => (LoopPasses' < LoopPasses /\ LoopPasses' >= 0)]_vars
    /\ [][pc = "selection" => pc' \in {"spawning", "idle"}]_vars

\* the world is full, genomes are still to be placed, and the last draw hit
\* an occupied cell: the loop of _random_empty_location cannot end
C21_Witness ==
    /\ pc = "spawning"
    /\ ~SpawnHasRoom
    /\ sp_genomes # <<>>
    /\ FreeCells(grid) = {}
    /\ sp_draw # NoCell
    /\ is_occupied(grid, sp_draw[1], sp_draw[2])

\* spawn_generation has returned after filling the 2 by 2 world exactly
C21_FullWorldSpawned ==
    /\ pc = "idle"
    /\ Len(individuals) = 4
    /\ sp_genomes = <<>>
    /\ FreeCells(grid) = {}

-----------------------------------------------------------------------------
(* Claims about execute_actions, checked under Spec *)

\* the step just taken is one pass of the loop of run_step: the individual at
\* the cursor has run take_step
StepTaken == Len(tick_log') = Len(tick_log) + 1

\* the responsiveness execute_actions leaves to the individual me for one of
\* the readings its sensors can give on the grid before the step
BlendedResponsiveness(me) ==
    {LET val == feed_forward(me.brain,
                             compute_sensors(me, grid, current_step, cfg.steps_per_gen, rnd)
                            ).action_outputs[SET_RESPONSIVENESS]
     IN  [lo |-> (2 * me.responsiveness.lo + val.lo + One) \div 4,
          hi |-> CeilDiv(2 * me.responsiveness.hi + val.hi + One, 4)]
     : rnd \in RandomSamples}

\* C22: in execute_actions, when the clamped move is (0,0) or its target is
\* out of bounds, a barrier or occupied, x, y, last_dx, last_dy and the whole
\* grid stay as they were while responsiveness is still updated; when the
\* target is in bounds and empty the grid move is made and x, y, last_dx,
\* last_dy take the new values.
C22_MoveOrStay ==
    [][StepTaken =>
        LET me == individuals[cursor]
            now == individuals'[cursor]
            mv == tick_log'[Len(tick_log')].move
            tx == me.x + mv[1]
            ty == me.y + mv[2]
            blocked == \/ mv = <<0, 0>>
                       \/ ~in_bounds(grid, tx, ty)
                       \/ is_barrier(grid, tx, ty)
                       \/ is_occupied(grid, tx, ty)
        IN  /\ now.responsiveness \in BlendedResponsiveness(me)
            /\ \A k \in 1..Len(individuals) : k # cursor => individuals'[k] = individuals[k]
            /\ blocked =>
                 /\ now.x = me.x /\ now.y = me.y
                 /\ now.last_dx = me.last_dx /\ now.last_dy = me.last_dy
                 /\ grid' = grid
            /\ ~blocked =>
                 /\ now.x = tx /\ now.y = ty
                 /\ now.last_dx = mv[1] /\ now.last_dy = mv[2]
                 /\ grid'.data = [grid.data EXCEPT ![me.x][me.y] = 0,
                                                   ![tx][ty] = cursor]
                 /\ grid'.barriers = grid.barriers
    ]_vars

\* an individual that moved in an earlier tick has just drawn a move it could
\* not make: it stands where it stood and keeps its previous direction,
\* which is not the direction it just tried
C22_Witness ==
    \E k \in 1..Len(tick_log) :
        /\ tick_log[k].move # <<0, 0>>
        /\ ~tick_log[k].moved
        /\ <<individuals[k].x, individuals[k].y>> = tick_log[k].from
        /\ <<individuals[k].last_dx, individuals[k].last_dy>> # <<0, 0>>
        /\ <<individuals[k].last_dx, individuals[k].last_dy>> # tick_log[k].move

\* an individual has just moved into a free cell
C22_Moved ==
    \E k \in 1..Len(tick_log) :
        /\ tick_log[k].moved
        /\ individuals[k].x = tick_log[k].from[1] + tick_log[k].move[1]
        /\ individuals[k].last_dx = tick_log[k].move[1]

-----------------------------------------------------------------------------
(* Claims about the ranges of an individual's fields, checked under SpecMove *)

\* an Individual as its constructor leaves it
Fresh(indiv) ==
    /\ indiv.last_dx = 0 /\ indiv.last_dy = 0
    /\ indiv.responsiveness = Exact(One \div 2)
    /\ indiv.alive

\* C23: in every reachable state every individual has last_dx and last_dy in
\* {-1, 0, 1} and responsiveness in [0, 1] (both ends of its enclosure are);
\* in one tick an individual's position changes by at most one cell along
\* each axis even when several move actions fire together (their deltas are
\* summed, then clamped); and responsiveness is never reset between spawns:
\* the population changes only by a spawn, which makes the individuals anew,
\* or by an individual's own step, which blends its responsiveness, and a
\* blend with a value of [0, 1] leaves it between half of what it was and
\* half way from what it was to 1, whatever the brain put out.
C23_RangesAndClamp ==
    /\ [](\A k \in 1..Len(individuals) :
            /\ individuals[k].last_dx \in {-1, 0, 1}
            /\ individuals[k].last_dy \in {-1, 0, 1}
            /\ 0 <= individuals[k].responsiveness.lo
            /\ individuals[k].responsiveness.lo <= individuals[k].responsiveness.hi
            /\ individuals[k].responsiveness.hi <= One)
    /\ [][StepTaken =>
            /\ Abs(individuals'[cursor].x - individuals[cursor].x) <= 1
            /\ Abs(individuals'[cursor].y - individuals[cursor].y) <= 1
            /\ individuals'[cursor].responsiveness.lo
                   >= individuals[cursor].responsiveness.lo \div 2
            /\ individuals'[cursor].responsiveness.hi
                   <= CeilDiv(individuals[cursor].responsiveness.hi + One, 2)
            /\ individuals'[cursor].responsiveness \in
                   BlendedResponsiveness(individuals[cursor])]_vars
    /\ [][(individuals' # individuals /\ ~StepTaken) =>
            /\ pc \in {"new", "idle", "selection"} /\ pc' = "idle"
            /\ \A k \in 1..Len(individuals') : Fresh(individuals'[k])]_vars

\* MOVE_X and MOVE_FORWARD have fired together and pushed the same way: the
\* summed delta is 2 and the individual has moved by one cell
C23_Witness ==
    \E k \in 1..Len(tick_log) :
        /\ tick_log[k].sum[1] = 2
        /\ tick_log[k].move[1] = 1
        /\ tick_log[k].moved
        /\ individuals[k].x = tick_log[k].from[1] + 1
        /\ individuals[k].last_dx = 1
        /\ individuals[k].responsiveness.lo > One \div 2

-----------------------------------------------------------------------------
(* Claims about Genome.mutate, checked under SpecMutate *)

\* C24: Genome.mutate on a genome of length n in [1, 50] leaves a length in
\* [1, 50] that differs from n by at most 1; a deletion happens only when
\* the length is above 1, an insertion only when the length left by the
\* deletion stage is below 50; the point mutations change no length.
C24_MutateKeepsLength ==
    mu_op = "mutated" =>
        /\ 1 <= Len(mu_after) /\ Len(mu_after) <= MaxGenes
        /\ Abs(Len(mu_after) - Len(mu_genes)) <= 1
        /\ Len(mu_pointed) = Len(mu_genes)
        /\ Len(mu_deleted) \in {Len(mu_pointed), Len(mu_pointed) - 1}
        /\ Len(mu_deleted) < Len(mu_pointed) => Len(mu_pointed) > 1
        /\ Len(mu_after) \in {Len(mu_deleted), Len(mu_deleted) + 1}
        /\ Len(mu_after) > Len(mu_deleted) => Len(mu_deleted) < MaxGenes

\* one call has mutated a gene, deleted a gene and appended a gene
C24_Witness ==
    /\ mu_op = "mutated"
    /\ mu_pointed # mu_genes
    /\ Len(mu_deleted) < Len(mu_pointed)
    /\ Len(mu_after) > Len(mu_deleted)

\* a genome of 50 genes has lost a gene and been given a new one by the
\* same call
C24_FullGenomeRefilled ==
    /\ mu_op = "mutated"
    /\ Len(mu_genes) = MaxGenes
    /\ Len(mu_deleted) = MaxGenes - 1
    /\ Len(mu_after) = MaxGenes

-----------------------------------------------------------------------------
(* Claims about the crossover of single-gene parents, checked under SpecCross *)

\* both parents hold exactly one gene and crossover has been called
SingleGeneParentsCrossed ==
    xop = "crossover" /\ Len(xa) = 1 /\ Len(xb) = 1

\* C25 as stated: for two parents of exactly one gene each, whatever cut
\* points in {0, 1} crossover draws, the child is exactly one gene, parent
\* a's gene or parent b's gene.
C25_ChildIsOneParent ==
    SingleGeneParentsCrossed =>
        /\ Len(xchild) = 1
        /\ xchild[1] = xa[1] \/ xchild[1] = xb[1]

\* C25, amended: for two parents of exactly one gene each the child is one
\* parent's gene only when the two cut points are equal (parent b's gene for
\* cuts 0 and 0, parent a's gene for cuts 1 and 1); cuts 1 and 0 give the
\* child of two genes, parent a's gene then parent b's gene, and cuts 0 and 1
\* give an empty recombination, replaced by the one gene Gene.random()
\* returns.
C25_SingleGeneParents ==
    SingleGeneParentsCrossed =>
        /\ xcut \in {0, 1} \X {0, 1}
        /\ xcut = <<0, 0>> => xchild = <<xb[1]>>
        /\ xcut = <<1, 1>> => xchild = <<xa[1]>>
        /\ xcut = <<1, 0>> => xchild = <<xa[1], xb[1]>>
        /\ xcut = <<0, 1>> => xchild = <<xrnd>>

\* single-gene parents cut at 1 and 0: the child holds both parents' genes
C25_Witness ==
    /\ SingleGeneParentsCrossed
    /\ xcut = <<1, 0>>
    /\ Len(xchild) = 2
    /\ xchild[1] = xa[1] /\ xchild[2] = xb[1]

\* single-gene parents cut at 0 and 1: the child is a random gene that is
\* neither parent's
C25_RandomChild ==
    /\ SingleGeneParentsCrossed
    /\ xcut = <<0, 1>>
    /\ Len(xchild) = 1
    /\ xchild[1] # xa[1] /\ xchild[1] # xb[1]

-----------------------------------------------------------------------------
(* Claims about reproduce without mutation, checked under SpecRepro *)

\* the fields of the genes of a genome held as object ids
FieldsOf(genes) == [j \in 1..Len(genes) |-> rheap[genes[j]]]

\* child is a genome Genome.crossover can return for two different survivors
CrossOfTwoSurvivors(child) ==
    \E a \in 1..Len(rsnap), b \in 1..Len(rsnap) :
        /\ a # b
        /\ \E ca \in 0..Len(rsnap[a]), cb \in 0..Len(rsnap[b]), rnd \in GenePool :
              child = crossover(rsnap[a], rsnap[b], ca, cb, rnd)

\* C26: with mutation_rate = 0 reproduce adds no variation of its own: with
\* one survivor every child is gene for gene the survivor's genome, and with
\* two or more every child is exactly Genome.crossover of the genomes of two
\* different survivors.
C26_NoVariationWithoutMutation ==
    (rcfg.mutation_rate = 0 /\ rop \in {"reproduce", "returned"}) =>
        \A k \in 1..Len(rchildren) :
            /\ Len(rsurv) = 1 => FieldsOf(rchildren[k]) = rsnap[1]
            /\ Len(rsurv) >= 2 => CrossOfTwoSurvivors(FieldsOf(rchildren[k]))

\* without mutation, two survivors of different genomes have a child that
\* holds all of one parent's genes followed by all of the other's
C26_Witness ==
    /\ rcfg.mutation_rate = 0
    /\ rop = "returned"
    /\ Len(rsurv) = 2
    /\ rsnap[1] # rsnap[2]
    /\ \E k \in 1..Len(rchildren) :
         FieldsOf(rchildren[k]) \in {rsnap[1] \o rsnap[2], rsnap[2] \o rsnap[1]}

\* without mutation, the children of a single survivor are its clones
C26_Clones ==
    /\ rcfg.mutation_rate = 0
    /\ rop = "returned"
    /\ Len(rsurv) = 1
    /\ Len(rchildren) = 2
    /\ FieldsOf(rchildren[1]) = rsnap[1] /\ FieldsOf(rchildren[2]) = rsnap[1]

-----------------------------------------------------------------------------
(* Claims about the range of weights, checked under SpecGene *)

\* C27: every gene decoded by Gene.from_int from a 32-bit word, or produced
\* by Gene.mutate bit flips, has a weight in [-4.0, 4.0].
C27_WeightInRange ==
    gop \in {"from_int", "roundtrip", "mutate"} => WeightInRange(gene.weight)

\* a gene of weight 0.0 whose bit 15 Gene.mutate has flipped: the weight code
\* is -32768 and the weight is below -4.0
C27_MutatedBelowRange ==
    /\ gop = "mutate"
    /\ gbit = 15
    /\ gprev.weight = 0
    /\ gene.weight < -CodeMax * WRes

-----------------------------------------------------------------------------
(* Claims about death, checked under Spec *)

\* C28: no individual ever dies: in every reachable state every individual
\* of the population has alive = true and kill_count is 0, so every history
\* record has kill_count = 0 and every tick has run take_step on the whole
\* population when it ends.
C28_NobodyDies ==
    /\ \A k \in 1..Len(individuals) : individuals[k].alive
    /\ kill_count = 0
    /\ \A r \in 1..Len(history) : history[r].kill_count = 0
    /\ (pc \in {"run_step", "run_all_steps"} /\ cursor > Len(individuals)) =>
           Len(tick_log) = Len(individuals)

\* a generation has ended in which an individual failed the selection: the
\* record counts one survivor of two and no kill
C28_Witness ==
    /\ generation = 1
    /\ Len(history) = 1
    /\ history[1].survivors < cfg.population_size
    /\ history[1].kill_count = 0
    /\ Len(individuals) = cfg.population_size
    /\ \A k \in 1..Len(individuals) : individuals[k].alive

-----------------------------------------------------------------------------
(* Claims about BLOCKED_FORWARD, checked under Spec *)

\* what BLOCKED_FORWARD reads for the individual at position k in the
\* current state
BlockedForward(k) ==
    compute_sensors(individuals[k], grid, current_step, cfg.steps_per_gen,
                    Exact(0))[BLOCKED_FORWARD]

HasDirection(indiv) == <<indiv.last_dx, indiv.last_dy>> # <<0, 0>>

\* C29: an individual that has made no successful move since it was spawned
\* (last_dx = last_dy = 0) always reads BLOCKED_FORWARD = 1.0, the cell one
\* step ahead being its own; BLOCKED_FORWARD can read 0.0 only after a
\* successful move; and (last_dx, last_dy) is (0, 0) exactly for the
\* individuals that have never moved: a spawn leaves it (0, 0), a successful
\* move makes it the move, a failed one leaves it as it was.
C29_BlockedUntilMoved ==
    /\ [](~compute_sensors_raises(grid, cfg.steps_per_gen) =>
            \A k \in 1..Len(individuals) :
                /\ ~HasDirection(individuals[k]) => BlockedForward(k) = Exact(One)
                /\ BlockedForward(k) = Exact(0) => HasDirection(individuals[k]))
    /\ [][StepTaken =>
            LET entry == tick_log'[Len(tick_log')]
            IN  /\ entry.moved =>
                     /\ entry.move # <<0, 0>>
                     /\ <<individuals'[cursor].last_dx,
                          individuals'[cursor].last_dy>> = entry.move
                /\ ~entry.moved =>
                     HasDirection(individuals'[cursor]) = HasDirection(individuals[cursor])
       ]_vars
    /\ [][(individuals' # individuals /\ ~StepTaken) =>
            \A k \in 1..Len(individuals') : ~HasDirection(individuals'[k])]_vars

\* an individual that has moved reads BLOCKED_FORWARD = 0.0: the cell ahead
\* of it is free
C29_Witness ==
    /\ ~compute_sensors_raises(grid, cfg.steps_per_gen)
    /\ \E k \in 1..Len(individuals) :
        /\ HasDirection(individuals[k])
        /\ BlockedForward(k) = Exact(0)

\* an individual that has not moved after a tick in which it tried to
C29_StillBlocked ==
    /\ ~compute_sensors_raises(grid, cfg.steps_per_gen)
    /\ \E k \in 1..Len(tick_log) :
        /\ tick_log[k].move # <<0, 0>>
        /\ ~tick_log[k].moved
        /\ ~HasDirection(individuals[k])
        /\ BlockedForward(k) = Exact(One)


-----------------------------------------------------------------------------
(* The interactive driver against run_one_generation *)

\* the engine's state, as both drivers leave it
EngineState == <<grid, individuals, generation, current_step, kill_count, history>>

\* a step of the interactive driver that ends a generation
GenerationAdvanced == Len(history') = Len(history) + 1

\* C30: the interactive driver (main loop + advance_generation) does to the
\* engine what run_one_generation does: it calls run_step only while
\* current_step < steps_per_gen, applies selection exactly when current_step =
\* steps_per_gen, appends the history record run_one_generation would append
\* (avg_genome_length 0.0 when nobody survived), and changes nothing of the
\* engine while paused or idle.
C30_DriverMatchesHeadless ==
    [][ /\ current_step' = current_step + 1 => current_step < cfg.steps_per_gen
        /\ GenerationAdvanced =>
             /\ current_step = cfg.steps_per_gen
             /\ history' = Append(history, Stats(cfg, generation, kill_count,
                                                 apply_selection(cfg, individuals)))
        /\ (gui_running /\ gui_running' /\ (gui_paused \/ gui_phase # "stepping"))
             => UNCHANGED EngineState ]_vars

\* a generation of the interactive driver ended with nobody in the zone
C30_NobodySurvived ==
    /\ gui_running
    /\ Len(history) = 1
    /\ history[1].survivors = 0
    /\ history[1].avg_genome_length = cfg.genome_length * One
    /\ cfg.genome_length > 0

====
